---- MODULE Spec2Model ----
(***************************************************************************)
(* A model of three_play, its SRT text utilities and its API helpers:      *)
(*   three_play/utils/parse/srt.py     timestamp codec and timeline edits  *)
(*   three_play/utils/parse/models.py  SRTLine and ListOfSRTLine           *)
(*   three_play/utils/parse/types.py   as_type / as_int                    *)
(*   three_play/v3/helper.py           cut_transcript_in_middle            *)
(*                                     as_turnaround                       *)
(*   three_play/v3/api.py              request, get_ad_asset_url,          *)
(*                                     _order_transcription_service        *)
(*                                                                         *)
(* A Python str is a sequence of one-character strings, so that split,     *)
(* strip, replace, int() and the slices of the source are computed         *)
(* character by character.  A call that may raise returns a record         *)
(* [exc, val]: exc is "" on a normal return and the exception's name       *)
(* otherwise.                                                              *)
(***************************************************************************)
EXTENDS Integers, Sequences, FiniteSets, TLC

VARIABLES
    op,       \* the call that produced the current state ("start": none yet)
    ts_arg,   \* total_ms: the timestamp string passed in
    given,    \* how the input was built: the numbers behind the string
    kwargs,   \* timestamp: its keyword arguments
    ret,      \* the value the last call returned, or the exception it raised
    blocks,   \* the caption blocks srt_contents was written from
    text,     \* the SRT text passed to the timeline editor
    call,     \* the arguments of the timeline editor call
    self,     \* a ListOfSRTLine: its SRTLine objects, in list order
    inserted, \* ListOfSRTLine.insert: the arguments of the last insertion and
              \* the list before it
    locals,   \* cut_transcript_in_middle: its local variables
    trace     \* cut_transcript_in_middle: the calls it has made, in order

vars == <<op, ts_arg, given, kwargs, ret, blocks, text, call, self, inserted,
          locals, trace>>

(***************************************************************************)
(* Bounds of the model.                                                    *)
(***************************************************************************)
\* number of colon-separated components in a generated timestamp
MaxComponents == 3
\* length of an arbitrary string handed to total_ms
MaxTsLen == 4
\* number of caption blocks in an SRT text
MaxBlocks == 3
\* number of SRTLine objects in a ListOfSRTLine before an insertion
MaxLines == 3
\* number of SRTLine objects in the list whose num is assigned
MaxNumLines == 2
\* number of dialogue lines of an SRTLine object that is written and parsed
MaxDialogueLines == 2
\* number of blocks of a text a ListOfSRTLine is made from
MaxSeqBlocks == 2
\* number of blocks of the text fetched by cut_transcript_in_middle
MaxFetchedBlocks == 2
\* number of blocks of a text with spaces inside its start timestamps
MaxSpacedBlocks == 2
\* words in a text assigned to SRTLine.dialogue
MaxWrapWords == 3
\* letters in one of those words
MaxWordLen == 2
\* the largest width of an SRTLine
MaxWidth == 5
\* lines of a text that follows no block structure
MaxLooseLines == 4
\* entries held by the server answering ThreePlayApi.request
MaxEntries == 4
\* audio description orders of a video
MaxOrders == 3

(***************************************************************************)
(* Python str primitives.                                                  *)
(*                                                                         *)
(* The({F(v) : v \in {e}}) is F(e) with e evaluated once: TLC evaluates    *)
(* an operator's argument and a LET definition again at every use, and a   *)
(* bound variable once.                                                    *)
(***************************************************************************)
The(S) == CHOOSE x \in S : TRUE

Digits == <<"0", "1", "2", "3", "4", "5", "6", "7", "8", "9">>

DigitValues == [c \in {Digits[i] : i \in 1..10} |-> (CHOOSE i \in 1..10 : Digits[i] = c) - 1]

IsDigit(c) == c \in DOMAIN DigitValues

DigitValue(c) == DigitValues[c]

\* str.isspace for one character
IsSpace(c) == c \in {" ", "\n", "\t"}

\* s[i:] for a 0-based i in 0..len(s)
From(s, i) == The({SubSeq(v, i + 1, Len(v)) : v \in {s}})

\* s[:i] for a 0-based i in 0..len(s)
Upto(s, i) == SubSeq(s, 1, i)

\* s.startswith(sub, i) for a 1-based position i and a non-empty sub
MatchAt(s, sub, i) ==
    /\ i + Len(sub) - 1 <= Len(s)
    /\ s[i] = sub[1]
    /\ \A k \in 2..Len(sub) : s[i + k - 1] = sub[k]

Min(S) == CHOOSE x \in S : \A y \in S : x <= y

Max(S) == CHOOSE x \in S : \A y \in S : x >= y

\* the 1-based positions where sub occurs in s
Occurrences(s, sub) == {i \in 1..(Len(s) - Len(sub) + 1) : MatchAt(s, sub, i)}

\* s.find(sub) + 1: the first 1-based position where sub occurs in s, or 0
Find(s, sub) ==
    The({IF at = {} THEN 0 ELSE Min(at) : at \in {Occurrences(s, sub)}})

\* s.rfind(sub) + 1: the last 1-based position where sub occurs in s, or 0
RFind(s, sub) ==
    The({IF at = {} THEN 0 ELSE Max(at) : at \in {Occurrences(s, sub)}})

\* sub in s
Contains(s, sub) ==
    \E v \in {s} : \E i \in 1..(Len(v) - Len(sub) + 1) : MatchAt(v, sub, i)

\* the first position >= i of s that holds no whitespace, or len(s) + 1
RECURSIVE SkipSpace(_, _)
SkipSpace(s, i) ==
    IF i > Len(s) \/ ~IsSpace(s[i]) THEN i ELSE SkipSpace(s, i + 1)

\* the last position <= i of s that holds no whitespace, or 0
RECURSIVE SkipSpaceBack(_, _)
SkipSpaceBack(s, i) ==
    IF i < 1 \/ ~IsSpace(s[i]) THEN i ELSE SkipSpaceBack(s, i - 1)

\* s.strip()
Strip(s) ==
    The({SubSeq(v, SkipSpace(v, 1), SkipSpaceBack(v, Len(v))) : v \in {s}})

\* s.replace(old, new) for one-character old and new
Replace(s, old, new) ==
    The({[i \in 1..Len(v) |-> IF v[i] = old THEN new ELSE v[i]] : v \in {s}})

IsNotBlank(c) == c # " "

\* s.replace(' ', '')
RemoveBlanks(s) == SelectSeq(s, IsNotBlank)

\* s.split(sep) from the 1-based position start on, for a one-character sep
\* found at the positions `at`: every piece, in order
RECURSIVE SplitFrom(_, _, _)
SplitFrom(s, at, start) ==
    The({IF rest = {} THEN <<SubSeq(s, start, Len(s))>>
         ELSE The({<<SubSeq(s, start, i - 1)>> \o SplitFrom(s, at, i + 1) :
                      i \in {Min(rest)}}) :
            rest \in {{i \in at : i >= start}}})

\* s.split(sep) for a one-character sep
Split(s, sep) ==
    The({The({SplitFrom(v, at, 1) : at \in {Occurrences(v, sep)}}) : v \in {s}})

\* the pieces of s around the sep found at the 1-based position i; s alone
\* when i is 0 (sep not found)
Cut(s, sep, i) ==
    The({IF j = 0 THEN <<s>>
         ELSE <<SubSeq(s, 1, j - 1), SubSeq(s, j + Len(sep), Len(s))>> :
            j \in {i}})

\* s.split(sep, 1): cut at the first sep
Split1(s, sep) == The({Cut(v, sep, Find(v, sep)) : v \in {s}})

\* s.rsplit(sep, 1): cut at the last sep
RSplit1(s, sep) == The({Cut(v, sep, RFind(v, sep)) : v \in {s}})

\* sep.join(parts[k:]) for a 1-based k <= len(parts)
RECURSIVE JoinFrom(_, _, _)
JoinFrom(parts, sep, k) ==
    IF k = Len(parts) THEN parts[k]
    ELSE parts[k] \o sep \o JoinFrom(parts, sep, k + 1)

\* sep.join(parts)
Join(parts, sep) ==
    The({IF v = <<>> THEN <<>> ELSE JoinFrom(v, sep, 1) : v \in {parts}})

Ok(v) == [exc |-> "", val |-> v]

Raise(e, v) == [exc |-> e, val |-> v]

\* the number the first n digits of s write
RECURSIVE DigitsValue(_, _)
DigitsValue(s, n) ==
    IF n = 0 THEN 0 ELSE DigitsValue(s, n - 1) * 10 + DigitValue(s[n])

\* what int() makes of the stripped text t, the empty string read as 0
int_stripped_empty_is_zero(t) ==
    IF \E i \in 1..Len(t) : ~IsDigit(t[i])
    THEN Raise("ValueError", 0)
    ELSE Ok(DigitsValue(t, Len(t)))

\* what int() makes of the stripped text t: one sign is allowed, and what is
\* left must be a non-empty run of decimal digits (int() also accepts single
\* underscores between digits; no text of this model holds one)
int_stripped(t) ==
    IF t # <<>> /\ Head(t) \in {"-", "+"}
    THEN IF Len(t) = 1 \/ \E i \in 2..Len(t) : ~IsDigit(t[i])
         THEN Raise("ValueError", 0)
         ELSE The({Ok(IF Head(t) = "-" THEN 0 - n ELSE n) :
                      n \in {DigitsValue(Tail(t), Len(t) - 1)}})
    ELSE IF t = <<>> \/ \E i \in 1..Len(t) : ~IsDigit(t[i])
         THEN Raise("ValueError", 0)
         ELSE Ok(DigitsValue(t, Len(t)))

\* int(s): surrounding whitespace is ignored
int(s) == The({int_stripped(t) : t \in {Strip(s)}})

\* str(n) for n >= 0
RECURSIVE str(_)
str(n) == IF n < 10 THEN <<Digits[n + 1]>> ELSE str(n \div 10) \o <<Digits[(n % 10) + 1]>>

\* '%0<width>d' % n, also f'{n:0><width>}', for the digits s of an n >= 0
RECURSIVE ZeroPad(_, _)
ZeroPad(s, width) == IF Len(s) >= width THEN s ELSE ZeroPad(<<"0">> \o s, width)

(***************************************************************************)
(* srt.py: total_ms, total_seconds, timestamp                              *)
(***************************************************************************)
\* reduce(lambda sum, d: sum * 60 + int(d), parts[k - 1:], acc), k 1-based
RECURSIVE reduce(_, _, _)
reduce(parts, k, acc) ==
    IF k > Len(parts) THEN Ok(acc)
    ELSE The({IF d.exc # "" THEN d ELSE reduce(parts, k + 1, acc * 60 + d.val) :
                 d \in {int(parts[k])}})

\* total_ms_split without the replace('.', ',') of the try block
total_ms_split_no_period(ts) ==
    The({IF Len(first) = 2 THEN first ELSE RSplit1(ts, <<":">>) :
            first \in {RSplit1(ts, <<",">>)}})

\* the two-name unpacking of the try block and of its except clause
total_ms_split(ts) ==
    The({IF Len(first) = 2 THEN first ELSE RSplit1(ts, <<":">>) :
            first \in {RSplit1(Replace(ts, ".", ","), <<",">>)}})

\* total_ms_of with the minutes and the seconds held to 0..59
total_ms_of_clock_range(h_m_s, milliseconds) ==
    The({IF seconds.exc # "" THEN seconds
         ELSE IF ms.exc # "" THEN ms
         ELSE IF \E k \in 2..Len(parts) : int(parts[k]).val > 59
              THEN Raise("ValueError", 0)
         ELSE Ok(seconds.val * 1000 + ms.val) :
            parts \in {Split(h_m_s, <<":">>)},
            seconds \in {reduce(Split(h_m_s, <<":">>), 1, 0)},
            ms \in {int(milliseconds)}})

\* the lines after the try statement, for the two names it has bound
total_ms_of(h_m_s, milliseconds) ==
    The({IF seconds.exc # "" THEN seconds
         ELSE IF ms.exc # "" THEN ms
         ELSE Ok(seconds.val * 1000 + ms.val) :
            seconds \in {reduce(Split(h_m_s, <<":">>), 1, 0)},
            ms \in {int(milliseconds)}})

total_ms(ts) ==
    The({IF Len(parts) # 2 THEN Raise("ValueError", 0)
         ELSE total_ms_of(parts[1], parts[2]) :
            parts \in {total_ms_split(ts)}})

\* datetime.timedelta(**kwargs), normalised to (days, seconds, microseconds).
\* The float arguments are kept at the microsecond, the resolution of a
\* timedelta: kw.microseconds is the fractional part of kw.milliseconds.
timedelta(kw) ==
    LET ms == ((kw.hours * 60 + kw.minutes) * 60 + kw.seconds) * 1000
                + kw.milliseconds
    IN  [days         |-> ms \div 86400000,
         seconds      |-> (ms % 86400000) \div 1000,
         microseconds |-> (ms % 1000) * 1000 + kw.microseconds]

\* str(timedelta)
timedelta_str(td) ==
    LET mm0 == td.seconds \div 60
        ss  == td.seconds % 60
        hh  == mm0 \div 60
        mm  == mm0 % 60
        s   == str(hh) \o <<":">> \o ZeroPad(str(mm), 2) \o <<":">> \o ZeroPad(str(ss), 2)
        d   == IF td.days = 0 THEN <<>>
               ELSE str(td.days) \o <<" ", "d", "a", "y">>
                    \o (IF td.days # 1 THEN <<"s">> ELSE <<>>) \o <<",", " ">>
        f   == IF td.microseconds = 0 THEN <<>>
               ELSE <<".">> \o ZeroPad(str(td.microseconds), 6)
    IN  d \o s \o f

timestamp(kw) ==
    The({IF Contains(t, <<".">>) THEN Upto(t, Len(t) - 3) ELSE t :
            t \in {timedelta_str(timedelta(kw))}})

\* total_seconds with the milliseconds written without padding
total_seconds_no_pad(ts) ==
    The({IF ms.exc # "" THEN Raise(ms.exc, <<>>)
         ELSE Ok(str(ms.val \div 1000) \o <<".">> \o str(ms.val % 1000)) :
            ms \in {total_ms(ts)}})

\* total_seconds(ts): f'{seconds}.{milliseconds:0>3}' of divmod(total_ms, 1000)
total_seconds(ts) ==
    The({IF ms.exc # "" THEN Raise(ms.exc, <<>>)
         ELSE Ok(str(ms.val \div 1000) \o <<".">> \o ZeroPad(str(ms.val % 1000), 3)) :
            ms \in {total_ms(ts)}})

\* float(s) for the '<seconds>.<mmm>' strings total_seconds writes: the value
\* in thousandths of a second, the unit every float of this model is kept in
float(s) ==
    The({int(parts[1]).val * 1000 + int(parts[2]).val :
            parts \in {Split1(s, <<".">>)}})

(***************************************************************************)
(* srt.py: get_srt_duration, remove_dialogue_for_first_ts,                 *)
(* remove_dialogue_between                                                 *)
(***************************************************************************)
NL == <<"\n">>

Arrow == <<"-", "-", ">">>

\* end = line.replace(' ', '').rsplit('-->', 1)[-1]; total_seconds(end)
end_seconds_of(line) ==
    The({total_seconds(parts[Len(parts)]) :
            parts \in {RSplit1(RemoveBlanks(line), Arrow)}})

\* the loop over reversed(caption_text) with every timing line taken, the one
\* of a blank cue too
RECURSIVE duration_loop_no_skip(_, _, _)
duration_loop_no_skip(caption_text, i, following_line) ==
    IF i = 0 THEN Ok(<<>>)
    ELSE IF Contains(caption_text[i], Arrow)
    THEN end_seconds_of(caption_text[i])
    ELSE duration_loop_no_skip(caption_text, i - 1, caption_text[i])

\* the loop over reversed(caption_text), from line i (1-based) downwards; the
\* empty string stands for "no break": captions_end_seconds keeps its default
RECURSIVE duration_loop(_, _, _)
duration_loop(caption_text, i, following_line) ==
    IF i = 0 THEN Ok(<<>>)
    ELSE IF Contains(caption_text[i], Arrow)
    THEN IF Strip(following_line) = <<>>
         THEN duration_loop(caption_text, i - 1, following_line)
         ELSE end_seconds_of(caption_text[i])
    ELSE duration_loop(caption_text, i - 1, caption_text[i])

get_srt_duration(srt_contents, default_end_seconds) ==
    The({The({IF found.exc # "" THEN Raise(found.exc, 0)
              ELSE IF found.val = <<>> THEN Ok(default_end_seconds)
              ELSE Ok(float(found.val)) :
                 found \in {duration_loop(caption_text, Len(caption_text), <<>>)}}) :
            caption_text \in {Split(srt_contents, NL)}})

\* line.split('-->', 1)[0].strip()
start_ts_of(line) == Strip(Split1(line, Arrow)[1])

\* every timing line is taken to start at ts
first_ts_matches_any(caption_text, ts) ==
    {i \in 1..Len(caption_text) : Contains(caption_text[i], Arrow)}

\* the lines (1-based) at which the test `start_ts == ts` of the loop succeeds
first_ts_matches(caption_text, ts) ==
    {i \in 1..Len(caption_text) :
        Contains(caption_text[i], Arrow) /\ start_ts_of(caption_text[i]) = ts}

\* the 0-based split_ind the inner loop ends with, for the 0-based line i of
\* the first match: the j of the next blank line, and i + 1 when none follows
split_ind_of(caption_text, i) ==
    The({IF blanks = {} THEN i + 1 ELSE Min(blanks) - 1 :
            blanks \in {{j \in (i + 2)..Len(caption_text) :
                            Strip(caption_text[j]) = <<>>}}})

\* the return statement inside the loop, for the 0-based line i of the match
first_ts_cut(caption_text, i) ==
    Join(Upto(caption_text, i + 1)
            \o From(caption_text, split_ind_of(caption_text, i)), NL)

remove_dialogue_for_first_ts(srt_contents, ts) ==
    The({The({IF matches = {} THEN srt_contents
              ELSE first_ts_cut(caption_text, Min(matches) - 1) :
                 matches \in {first_ts_matches(caption_text, ts)}}) :
            caption_text \in {Split(srt_contents, NL)}})

\* start_ms <= line_ts_ms <= end_ms: the end of the range taken in
in_range_closed(line_ts_ms, start_ms, end_ms) ==
    start_ms <= line_ts_ms /\ line_ts_ms <= end_ms

\* start_ms <= line_ts_ms < end_ms
in_range(line_ts_ms, start_ms, end_ms) ==
    start_ms <= line_ts_ms /\ line_ts_ms < end_ms

\* the branch of a timing line with the error of total_ms swallowed: the
\* line is kept and the loop goes on
between_timing_line_keeps_unparsable(loop, line, start_ms, end_ms) ==
    The({[exc              |-> "",
          srt_lines        |-> Append(loop.srt_lines, line),
          exclude_dialogue |->
               loop.exclude_dialogue
                   \/ (line_ts_ms.exc = ""
                         /\ in_range(line_ts_ms.val, start_ms, end_ms))] :
            line_ts_ms \in {total_ms(start_ts_of(line))}})

\* The loop of remove_dialogue_between keeps srt_lines and exclude_dialogue;
\* here they are the fields of one record, with exc set once total_ms raised.
\* The branch of a timing line:
between_timing_line(loop, line, start_ms, end_ms) ==
    The({IF line_ts_ms.exc # "" THEN [loop EXCEPT !.exc = line_ts_ms.exc]
         ELSE [exc              |-> "",
               srt_lines        |-> Append(loop.srt_lines, line),
               exclude_dialogue |->
                    loop.exclude_dialogue
                        \/ in_range(line_ts_ms.val, start_ms, end_ms)] :
            line_ts_ms \in {total_ms(start_ts_of(line))}})

\* one pass of the loop body, with the blank line that ends an excluded
\* dialogue dropped like the dialogue
between_step_drop_blank(loop, line, start_ms, end_ms) ==
    IF Contains(line, Arrow)
    THEN between_timing_line(loop, line, start_ms, end_ms)
    ELSE IF loop.exclude_dialogue
    THEN [loop EXCEPT !.exclude_dialogue = Strip(line) # <<>>]
    ELSE [loop EXCEPT !.srt_lines = Append(loop.srt_lines, line)]

\* one pass of the loop body
between_step(loop, line, start_ms, end_ms) ==
    IF Contains(line, Arrow)
    THEN between_timing_line(loop, line, start_ms, end_ms)
    ELSE IF loop.exclude_dialogue /\ Strip(line) # <<>>
    THEN loop
    ELSE [exc              |-> "",
          srt_lines        |-> Append(loop.srt_lines, line),
          exclude_dialogue |-> FALSE]

\* the loop over caption_text, from line i (1-based) on
RECURSIVE between_loop(_, _, _, _, _)
between_loop(caption_text, i, loop, start_ms, end_ms) ==
    IF i > Len(caption_text) \/ loop.exc # "" THEN loop
    ELSE The({between_loop(caption_text, i + 1, next, start_ms, end_ms) :
                 next \in {between_step(loop, caption_text[i], start_ms, end_ms)}})

remove_dialogue_between(srt_contents, start_ms, end_ms) ==
    The({The({IF loop.exc # "" THEN Raise(loop.exc, <<>>)
              ELSE Ok(Join(IF loop.srt_lines # <<>> THEN loop.srt_lines
                           ELSE caption_text, NL)) :
                 loop \in {between_loop(caption_text, 1,
                              [exc |-> "", srt_lines |-> <<>>,
                               exclude_dialogue |-> FALSE],
                              start_ms, end_ms)}}) :
            caption_text \in {Split(srt_contents, NL)}})

(***************************************************************************)
(* The timestamp codec: inputs and calls.                                  *)
(***************************************************************************)
\* sequences over S of length lo..hi
SeqsOf(S, lo, hi) == UNION {[1..n -> S] : n \in lo..hi}

CompValues == {0, 1, 20, 32, 59}

MsValues == {0, 5, 999}

Separators == {",", ".", ":"}

\* what a producer writes for (comps, ms): H:MM:SS<sep>mmm, the milliseconds
\* zero-padded to `width` digits
RECURSIVE WriteComps(_)
WriteComps(comps) ==
    IF Len(comps) = 1 THEN ZeroPad(str(comps[1]), 2)
    ELSE ZeroPad(str(comps[1]), 2) \o <<":">> \o WriteComps(Tail(comps))

WriteTs(comps, sep, ms, width) ==
    str(comps[1])
      \o (IF Len(comps) = 1 THEN <<>> ELSE <<":">> \o WriteComps(Tail(comps)))
      \o <<sep>> \o ZeroPad(str(ms), width)

Formatted ==
    {[kind |-> "formatted", comps |-> c, sep |-> s, ms |-> m, width |-> w] :
        c \in SeqsOf(CompValues, 1, MaxComponents), s \in Separators,
        m \in MsValues, w \in {1, 3}}

\* timestamps no clock shows: the default second_end of
\* cut_transcript_in_middle, '99:99:99,999', and a hundred hours
BeyondClock ==
    {[kind |-> "formatted", comps |-> c.comps, sep |-> s, ms |-> c.ms,
      width |-> 3] :
        c \in {[comps |-> <<99, 99, 99>>, ms |-> 999],
               [comps |-> <<100, 0, 0>>, ms |-> 0]},
        s \in Separators}

TsAlphabet == {"1", "2", ":", ",", ".", "a"}

Raw == {[kind |-> "raw", text |-> t] : t \in SeqsOf(TsAlphabet, 0, MaxTsLen)}

Durations ==
    {[kind |-> "duration", hours |-> h, minutes |-> m, seconds |-> s,
      milliseconds |-> ms, microseconds |-> us] :
        h \in {0, 1, 23, 24, 49}, m \in {0, 59}, s \in {0, 1, 59},
        ms \in {0, 1, 5, 999, 1000, 1001, 86399999, 86400000, 86400001},
        us \in {0, 1, 999}}

NoKwargs == [hours |-> 0, minutes |-> 0, seconds |-> 0, milliseconds |-> 0,
             microseconds |-> 0]

NoRet == Ok(0)

\* the variables of the other components, at rest
SrtIdle == blocks = <<>> /\ text = <<>> /\ call = <<>>

ListIdle == self = <<>> /\ inserted = <<>>

TsIdle == ts_arg = <<>> /\ kwargs = NoKwargs

CutIdle == locals = <<>> /\ trace = <<>>

InitTs ==
    /\ op = "start"
    /\ ret = NoRet
    /\ CutIdle
    /\ SrtIdle /\ ListIdle
    /\ given \in Formatted \cup BeyondClock \cup Raw \cup Durations
    /\ ts_arg = CASE given.kind = "formatted" ->
                    WriteTs(given.comps, given.sep, given.ms, given.width)
              [] given.kind = "raw" -> given.text
              [] OTHER -> <<>>
    /\ kwargs = IF given.kind = "duration"
                THEN [hours |-> given.hours, minutes |-> given.minutes,
                      seconds |-> given.seconds,
                      milliseconds |-> given.milliseconds,
                      microseconds |-> given.microseconds]
                ELSE NoKwargs

\* total_ms(ts)
CallTotalMs ==
    /\ op = "start"
    /\ given.kind \in {"formatted", "raw"}
    /\ ret' = total_ms(ts_arg)
    /\ op' = "total_ms"
    /\ UNCHANGED <<ts_arg, given, kwargs, blocks, text, call, self, inserted, locals, trace>>

\* timestamp(seconds, hours=, minutes=, milliseconds=)
CallTimestamp ==
    /\ op = "start"
    /\ given.kind = "duration"
    /\ ret' = Ok(timestamp(kwargs))
    /\ op' = "timestamp"
    /\ UNCHANGED <<ts_arg, given, kwargs, blocks, text, call, self, inserted, locals, trace>>

\* total_ms(timestamp(...)): the string just formatted is parsed back
CallTotalMsOfTimestamp ==
    /\ op = "timestamp"
    /\ ts_arg' = ret.val
    /\ ret' = total_ms(ret.val)
    /\ op' = "round_trip"
    /\ UNCHANGED <<given, kwargs, blocks, text, call, self, inserted, locals, trace>>

\* total_seconds(ts)
CallTotalSeconds ==
    /\ op = "start"
    /\ given.kind \in {"formatted", "raw"}
    /\ ret' = total_seconds(ts_arg)
    /\ op' = "total_seconds"
    /\ UNCHANGED <<ts_arg, given, kwargs, blocks, text, call, self, inserted, locals, trace>>

NextTs == CallTotalMs \/ CallTimestamp \/ CallTotalMsOfTimestamp \/ CallTotalSeconds

SpecTs == InitTs /\ [][NextTs]_vars

(***************************************************************************)
(* Claims about the timestamp codec, checked under SpecTs.                 *)
(***************************************************************************)
OnlyMilliseconds ==
    kwargs.hours = 0 /\ kwargs.minutes = 0 /\ kwargs.seconds = 0
        /\ kwargs.microseconds = 0

\* C3: total_ms(timestamp(milliseconds=ms)) == ms for every non-negative
\* integer ms, whole seconds and 24 hours or more included.
C3_RoundTrip ==
    (op = "round_trip" /\ OnlyMilliseconds) => ret = Ok(kwargs.milliseconds)

RECURSIVE Fold60(_, _)
Fold60(comps, acc) ==
    IF comps = <<>> THEN acc ELSE Fold60(Tail(comps), acc * 60 + Head(comps))

\* C4: for colon-separated integer components and a millisecond part after
\* ',', '.' or a final ':', total_ms is (fold acc*60 + component) * 1000 +
\* milliseconds, whichever of the three separators is written.
C4_TotalMsFold ==
    (op = "total_ms" /\ given.kind = "formatted") =>
        ret = Ok(Fold60(given.comps, 0) * 1000 + given.ms)

\* total_ms("1:20:32.005") has returned 4832005, as "1:20:32,005" does
C4_Witness ==
    /\ op = "total_ms"
    /\ ts_arg = <<"1", ":", "2", "0", ":", "3", "2", ".", "0", "0", "5">>
    /\ ret = Ok(4832005)

\* H:MM:SS.mmm: digits, ':', two digits, ':', two digits, '.', three digits
IsHMMSSmmm(s) ==
    LET n == Len(s)
    IN  /\ n >= 11
        /\ s[n - 3] = "." /\ s[n - 6] = ":" /\ s[n - 9] = ":"
        /\ \A i \in (1..n) \ {n - 3, n - 6, n - 9} : IsDigit(s[i])

DurationMs ==
    ((kwargs.hours * 60 + kwargs.minutes) * 60 + kwargs.seconds) * 1000
        + kwargs.milliseconds

\* C5: timestamp(...) always returns H:MM:SS.mmm with exactly three
\* millisecond digits, the sub-millisecond digits dropped, for every
\* non-negative duration, whole seconds included.
C5_TimestampForm ==
    op = "timestamp" =>
        /\ IsHMMSSmmm(ret.val)
        /\ DigitsValue(From(ret.val, Len(ret.val) - 3), 3) = DurationMs % 1000

HasSeparator(s) == \E i \in 1..Len(s) : s[i] \in Separators

\* digit runs separated by ':', the last separator being ',', '.' or ':'
IsTimestampForm(s) ==
    LET seps == {i \in 1..Len(s) : s[i] \in Separators}
    IN  /\ seps # {}
        /\ \A i \in 1..Len(s) : IsDigit(s[i]) \/ i \in seps
        /\ IsDigit(s[1]) /\ IsDigit(s[Len(s)])
        /\ \A i \in seps : (i + 1) \notin seps
        /\ \A i \in seps : s[i] # ":" => i = Max(seps)

\* C6 as claimed: total_ms raises exactly when the string holds none of
\* ',', '.', ':'.
C6_RaisesOnlyWithoutSeparator ==
    op = "total_ms" => (ret.exc # "" <=> ~HasSeparator(ts_arg))

\* C6 as amended: without a separator total_ms raises; with one it returns
\* an integer when the string is digit runs around the separators, and raises
\* when a component is empty or not a number.
C6_RaisesUnlessTimestampForm ==
    (op = "total_ms" /\ given.kind = "raw") =>
        /\ ~HasSeparator(ts_arg) => ret.exc = "ValueError"
        /\ IsTimestampForm(ts_arg) => ret.exc = ""
        /\ (HasSeparator(ts_arg) /\ ~IsTimestampForm(ts_arg)) =>
                ret.exc = "ValueError"

\* total_ms("1:,") has raised although the string holds separators
C6_Witness ==
    /\ op = "total_ms"
    /\ ts_arg = <<"1", ":", ",">>
    /\ ret.exc = "ValueError"

(***************************************************************************)
(* The timeline editor: SRT texts and calls.                               *)
(***************************************************************************)
\* a timestamp as SRT files hold it: H:MM:SS,mmm
WriteMs(ms) ==
    WriteTs(<<ms \div 3600000, (ms \div 60000) % 60, (ms \div 1000) % 60>>,
            ",", ms % 1000, 3)

TimingLine(start, end) ==
    WriteMs(start) \o <<" ", "-", "-", ">", " ">> \o WriteMs(end)

\* the lines of the k-th block of a file: index, timing, dialogue
BlockLines(b, k) == <<str(k), TimingLine(b.start, b.end)>> \o b.dialogue

\* the lines of a file: its blocks with one blank line between two of them, and
\* an empty last line when the file ends with a newline
RECURSIVE FileLines(_, _, _)
FileLines(bs, k, newline_at_end) ==
    IF k > Len(bs) THEN (IF newline_at_end /\ Len(bs) > 0 THEN <<<<>>>> ELSE <<>>)
    ELSE BlockLines(bs[k], k)
           \o (IF k < Len(bs) THEN <<<<>>>> ELSE <<>>)
           \o FileLines(bs, k + 1, newline_at_end)

WriteSrt(bs, newline_at_end) ==
    The({Join(FileLines(v, 1, newline_at_end), NL) : v \in {bs}})

\* the dialogue of a block: none (a blank cue), one line or two
DialogueChoices == {<<>>, <<<<"a">>>>, <<<<"a">>, <<"b">>>>}

\* a block starts where the block before it starts (step 0) or ends (step 1),
\* the first one at 0, and lasts one second
BlockShapes == [step : {0, 1}, dialogue : DialogueChoices]

RECURSIVE StartOf(_, _)
StartOf(shapes, k) ==
    IF k = 1 THEN 0 ELSE StartOf(shapes, k - 1) + 1000 * shapes[k].step

BlocksOf(shapes) ==
    [k \in 1..Len(shapes) |->
        [start    |-> StartOf(shapes, k),
         end      |-> StartOf(shapes, k) + 1000,
         dialogue |-> shapes[k].dialogue]]

Files ==
    {BlocksOf(shapes) : shapes \in
        {sh \in SeqsOf(BlockShapes, 0, MaxBlocks) : Len(sh) > 0 => sh[1].step = 0}}

\* the start_ms, end_ms of the calls of remove_dialogue_between
Ranges == {<<0, 1000>>, <<1000, 2000>>, <<0, 2000>>, <<1000, 3000>>, <<1000, 1000>>}

\* the start timestamps looked for by remove_dialogue_for_first_ts
Targets == {0, 1000, 2000}

InitSrt ==
    /\ op = "start"
    /\ ret = NoRet
    /\ CutIdle
    /\ TsIdle /\ ListIdle
    /\ call = <<>>
    /\ blocks \in Files
    /\ \E nl \in BOOLEAN :
        /\ given = [kind |-> "srt", newline_at_end |-> nl]
        /\ text = WriteSrt(blocks, nl)

\* get_srt_duration(srt_contents, default_end_seconds)
CallGetSrtDuration ==
    /\ op = "start"
    /\ given.kind = "srt"
    /\ call' = [default_end_seconds |-> 7500]
    /\ ret' = get_srt_duration(text, 7500)
    /\ op' = "get_srt_duration"
    /\ UNCHANGED <<ts_arg, given, kwargs, blocks, text, self, inserted, locals, trace>>

\* remove_dialogue_for_first_ts(srt_contents, ts)
CallRemoveDialogueForFirstTs ==
    /\ op = "start"
    /\ given.kind = "srt"
    /\ \E t \in Targets :
        /\ call' = [ts |-> WriteMs(t)]
        /\ ret' = Ok(remove_dialogue_for_first_ts(text, WriteMs(t)))
    /\ op' = "remove_dialogue_for_first_ts"
    /\ UNCHANGED <<ts_arg, given, kwargs, blocks, text, self, inserted, locals, trace>>

\* remove_dialogue_between(srt_contents, start_ms, end_ms)
CallRemoveDialogueBetween ==
    /\ op = "start"
    /\ given.kind = "srt"
    /\ \E r \in Ranges :
        /\ call' = [start_ms |-> r[1], end_ms |-> r[2], once |-> <<>>]
        /\ ret' = remove_dialogue_between(text, r[1], r[2])
    /\ op' = "remove_dialogue_between"
    /\ UNCHANGED <<ts_arg, given, kwargs, blocks, text, self, inserted, locals, trace>>

\* remove_dialogue_between applied to its own result, with the same range
CallRemoveDialogueBetweenAgain ==
    /\ op = "remove_dialogue_between"
    /\ ret.exc = ""
    /\ call' = [call EXCEPT !.once = ret.val]
    /\ ret' = remove_dialogue_between(ret.val, call.start_ms, call.end_ms)
    /\ op' = "remove_dialogue_between_again"
    /\ UNCHANGED <<ts_arg, given, kwargs, blocks, text, self, inserted, locals, trace>>

NextSrt ==
    \/ CallGetSrtDuration
    \/ CallRemoveDialogueForFirstTs
    \/ CallRemoveDialogueBetween
    \/ CallRemoveDialogueBetweenAgain

SpecSrt == InitSrt /\ [][NextSrt]_vars

(***************************************************************************)
(* Properties of the timeline editor.                                      *)
(***************************************************************************)
InRange(b) == call.start_ms <= b.start /\ b.start < call.end_ms

\* the blocks of the file with the dialogue of every block of the set ks removed
WithoutDialogue(ks) ==
    [k \in 1..Len(blocks) |->
        IF k \in ks THEN [blocks[k] EXCEPT !.dialogue = <<>>] ELSE blocks[k]]

\* C1: remove_dialogue_between returns the text with the dialogue of every
\* block whose start is in [start_ms, end_ms) removed, and with the index
\* lines, the timing lines and the separators of all blocks, and the dialogue
\* of the other blocks, as they were.
C1_RemovesHalfOpenRange ==
    op = "remove_dialogue_between" =>
        ret = Ok(WriteSrt(WithoutDialogue({k \in 1..Len(blocks) : InRange(blocks[k])}),
                          given.newline_at_end))

\* a call that removes the dialogue of a block and keeps the dialogue of a block
\* that starts exactly at end_ms
C1_Witness ==
    /\ op = "remove_dialogue_between"
    /\ ret.exc = ""
    /\ \E k, j \in 1..Len(blocks) :
        /\ InRange(blocks[k]) /\ blocks[k].dialogue # <<>>
        /\ blocks[j].start = call.end_ms /\ blocks[j].dialogue # <<>>
        /\ Contains(ret.val, blocks[j].dialogue[1])

Matches(k) == WriteMs(blocks[k].start) = call.ts

FirstMatch == Min({k \in 1..Len(blocks) : Matches(k)})

\* C2: remove_dialogue_for_first_ts, when a timing line of the text starts
\* with ts, returns the text with the dialogue of the first such block removed.
C2_FirstTsRemoved ==
    (op = "remove_dialogue_for_first_ts" /\ \E k \in 1..Len(blocks) : Matches(k)) =>
        ret = Ok(WriteSrt(WithoutDialogue({FirstMatch}), given.newline_at_end))

LastWithDialogue == Max({k \in 1..Len(blocks) : blocks[k].dialogue # <<>>})

\* C7: get_srt_duration returns the end, in seconds, of the last block that
\* has dialogue, and default_end_seconds when no block has dialogue.
C7_DurationOfLastSpoken ==
    op = "get_srt_duration" =>
        ret = Ok(IF \A k \in 1..Len(blocks) : blocks[k].dialogue = <<>>
                 THEN call.default_end_seconds
                 ELSE blocks[LastWithDialogue].end)

\* a file whose last block is blank and an earlier one is not
C7_Witness ==
    /\ op = "get_srt_duration"
    /\ Len(blocks) = 3
    /\ blocks[3].dialogue = <<>>
    /\ blocks[2].dialogue # <<>>
    /\ ret = Ok(blocks[2].end)
    /\ blocks[2].end # blocks[3].end

\* C8: remove_dialogue_between applied to its own result with the same range
\* returns that result.
C8_Idempotent ==
    op = "remove_dialogue_between_again" => ret = Ok(call.once)

\* a second application after a first one that removed dialogue and kept some
C8_Witness ==
    /\ op = "remove_dialogue_between_again"
    /\ call.once # text
    /\ \E k \in 1..Len(blocks) : ~InRange(blocks[k]) /\ blocks[k].dialogue # <<>>
    /\ ret = Ok(call.once)

\* C9: remove_dialogue_for_first_ts returns the text as it was when no timing
\* line of it starts with ts.
C9_NoMatchUnchanged ==
    (op = "remove_dialogue_for_first_ts" /\ \A k \in 1..Len(blocks) : ~Matches(k)) =>
        ret = Ok(text)

\* a call on a file with dialogue in which no block starts at ts
C9_Witness ==
    /\ op = "remove_dialogue_for_first_ts"
    /\ Len(blocks) >= 2
    /\ \A k \in 1..Len(blocks) : ~Matches(k) /\ blocks[k].dialogue # <<>>
    /\ ret = Ok(text)

(***************************************************************************)
(* ListOfSRTLine: a list of SRTLine objects, each held once.               *)
(***************************************************************************)
\* an SRTLine object, after its constructor has run
SRTLine(num, time_range, dialogue) ==
    [num |-> num, time_range |-> time_range, dialogue |-> dialogue]

\* the setter of num, given an int: as_int returns an int as it is
set_num(line, n) == [line EXCEPT !.num = n]

\* the body of the loop of insert without the reset of a num of 0
renumber_no_reset(rem_lines, __index) == set_num(rem_lines, rem_lines.num + 1)

\* the body of the loop of insert
renumber(rem_lines, __index) ==
    LET reset == IF rem_lines.num = 0
                 THEN set_num(rem_lines, __index + 1)
                 ELSE rem_lines
    IN  set_num(reset, reset.num + 1)

\* the 0-based position a slice or list.insert starts at for index i
slice_start(len, i) == IF i < 0 THEN Max({len + i, 0}) ELSE Min({i, len})

\* ListOfSRTLine.insert: the lines of self[__index:] are renumbered in place,
\* then list.insert puts __object in
insert(lines, __index, __object) ==
    LET at == slice_start(Len(lines), __index)
        renumbered == [k \in 1..Len(lines) |->
                          IF k > at THEN renumber(lines[k], __index) ELSE lines[k]]
    IN  SubSeq(renumbered, 1, at) \o <<__object>>
          \o SubSeq(renumbered, at + 1, Len(lines))

\* index values of the lines of a list: parsed ones, and 0 for an unparsable one
NumChoices == {-1, 0, 1, 5}

Lines == {SRTLine(n, TimingLine(0, 1000), <<<<"a">>>>) : n \in NumChoices}

NewLines == {SRTLine(n, TimingLine(1000, 2000), <<<<"b">>>>) : n \in {0, 3}}

InitList ==
    /\ op = "start"
    /\ ret = NoRet
    /\ CutIdle
    /\ TsIdle /\ SrtIdle
    /\ given = [kind |-> "list"]
    /\ call = <<>>
    /\ self \in SeqsOf(Lines, 0, MaxLines)
    /\ inserted = <<>>

\* self.insert(__index, __object)
CallInsert ==
    /\ op = "start"
    /\ given.kind = "list"
    /\ \E __index \in -1..(Len(self) + 1), __object \in NewLines :
        /\ inserted' = [__index |-> __index, __object |-> __object, before |-> self]
        /\ self' = insert(self, __index, __object)
    /\ op' = "insert"
    /\ UNCHANGED <<ts_arg, given, kwargs, ret, blocks, text, call, locals, trace>>

NextList == CallInsert

SpecList == InitList /\ [][NextList]_vars

\* an insertion at a position of the list
InsertedAtPosition ==
    /\ op = "insert"
    /\ 0 <= inserted.__index /\ inserted.__index <= Len(inserted.before)

\* all but the num of the lines that were in the list is as it was, the lines
\* before the position are as they were, the inserted line is at the position
\* as it was given, and the list is one longer
InsertFrame ==
    /\ Len(self) = Len(inserted.before) + 1
    /\ self[inserted.__index + 1] = inserted.__object
    /\ \A k \in 1..inserted.__index : self[k] = inserted.before[k]
    /\ \A k \in (inserted.__index + 1)..Len(inserted.before) :
        self[k + 1] = set_num(inserted.before[k], self[k + 1].num)

\* C10, as stated: insert(i, block) increases by exactly 1 the index of every
\* block that was at position >= i, whatever its value; blocks before i and
\* the inserted block keep their index; the inserted block is at position i
\* and the list is one longer.
C10_AllIncrementedByOne ==
    InsertedAtPosition =>
        /\ InsertFrame
        /\ \A k \in (inserted.__index + 1)..Len(inserted.before) :
            self[k + 1].num = inserted.before[k].num + 1

\* C10, amended: insert(i, block) with 0 <= i <= length increases by exactly 1
\* the index of every block that was at position >= i when that index was not
\* 0, and sets it to i + 2 when it was 0; blocks before i and the inserted
\* block keep their index; the inserted block is at position i and the list is
\* one longer.
C10_IncrementedOrReset ==
    InsertedAtPosition =>
        /\ InsertFrame
        /\ \A k \in (inserted.__index + 1)..Len(inserted.before) :
            self[k + 1].num = IF inserted.before[k].num = 0
                              THEN inserted.__index + 2
                              ELSE inserted.before[k].num + 1

\* an insertion before a line with index 0 and a line with another index
C10_Witness ==
    /\ InsertedAtPosition
    /\ inserted.__index = 1
    /\ Len(inserted.before) = 3
    /\ inserted.before[2].num = 0
    /\ inserted.before[3].num = 5
    /\ self[3].num = 3
    /\ self[4].num = 6

\* C11: when the blocks at or after the position all have the index 0 of an
\* unparsable number, insert(position, block) leaves them numbered in
\* sequence order: position + 2, position + 3, ...
C11_ContiguousAfterReset ==
    (/\ InsertedAtPosition
     /\ \A k \in (inserted.__index + 1)..Len(inserted.before) :
            inserted.before[k].num = 0) =>
        \A k \in (inserted.__index + 1)..Len(inserted.before) :
            self[k + 1].num = k + 1

(***************************************************************************)
(* types.py: as_type, as_int; models.py: SRTLine, ListOfSRTLine            *)
(*                                                                         *)
(* A Python value that may be an int, a str or None is a record            *)
(* [type, int, str]: the name of its type, and its value in the field of   *)
(* that type.                                                              *)
(***************************************************************************)
PyInt(n) == [type |-> "int", int |-> n, str |-> <<>>]

PyStr(s) == [type |-> "str", int |-> 0, str |-> s]

PyNone == [type |-> "NoneType", int |-> 0, str |-> <<>>]

\* not o
IsFalsy(o) ==
    \/ o.type = "NoneType"
    \/ o.type = "int" /\ o.int = 0
    \/ o.type = "str" /\ o.str = <<>>

\* as_type(o, int, default, raise_): the int o itself, default for a falsy o,
\* and int(o) otherwise, with default in place of a ValueError unless raise_
as_type(o, _type, default, raise_) ==
    IF o.type = _type THEN Ok(o.int)
    ELSE IF IsFalsy(o) THEN Ok(default)
    ELSE The({IF r.exc = "ValueError" /\ ~raise_ THEN Ok(default) ELSE r :
                 r \in {int(o.str)}})

as_int(o, default, raise_) == as_type(o, "int", default, raise_)

\* the setter of num: self._num = as_int(n, default, raise_=False)
num_setter(line, n) == [line EXCEPT !.num = as_int(n, 0, FALSE).val]

\* SRTLine(num, time_range, dialogue) for a list (or None) as dialogue: the
\* setters of num and of dialogue have run
SRTLine__init__(num, time_range, dialogue) ==
    num_setter(SRTLine(0, time_range, dialogue), num)

\* the unpacking of fewer than two lines raises before an object is made
NoLine == SRTLine(0, <<>>, <<>>)

\* s.split(sep) from the 1-based position start on, for a sep of any length
\* that occurs at the positions `at`
RECURSIVE SplitByFrom(_, _, _, _)
SplitByFrom(s, sep, at, start) ==
    The({IF rest = {} THEN <<SubSeq(s, start, Len(s))>>
         ELSE The({<<SubSeq(s, start, i - 1)>>
                        \o SplitByFrom(s, sep, at, i + Len(sep)) :
                      i \in {Min(rest)}}) :
            rest \in {{i \in at : i >= start}}})

\* s.split(sep)
SplitBy(s, sep) ==
    The({The({SplitByFrom(v, sep, at, 1) : at \in {Occurrences(v, sep)}}) :
            v \in {s}})

\* SRTLine.parse with the dialogue left out
parse_without_dialogue(lines) ==
    The({IF Len(ls) < 2 THEN Raise("ValueError", NoLine)
         ELSE Ok(SRTLine__init__(PyStr(ls[1]), ls[2], <<>>)) :
            ls \in {Split(Strip(lines), NL)}})

\* SRTLine.parse(lines) for a str
parse(lines) ==
    The({IF Len(ls) < 2 THEN Raise("ValueError", NoLine)
         ELSE Ok(SRTLine__init__(PyStr(ls[1]), ls[2], SubSeq(ls, 3, Len(ls)))) :
            ls \in {Split(Strip(lines), NL)}})

\* str(n) for an int n
str_int(n) == IF n < 0 THEN <<"-">> \o str(0 - n) ELSE str(n)

\* SRTLine.__str__
__str__(line) == Join(<<str_int(line.num), line.time_range>> \o line.dialogue, NL)

\* the generator of ListOfSRTLine.__init__, from the k-th chunk on: the list
\* of the lines parsed, or the first exception raised
RECURSIVE parse_each(_, _, _)
parse_each(chunks, k, seq) ==
    IF k > Len(chunks) THEN Ok(seq)
    ELSE The({IF line.exc # "" THEN Raise(line.exc, <<>>)
              ELSE parse_each(chunks, k + 1, Append(seq, line.val)) :
                 line \in {parse(chunks[k])}})

\* ListOfSRTLine(srt_contents)
ListOfSRTLine__init__(srt_contents) ==
    parse_each(SplitBy(srt_contents, <<"\n", "\n">>), 1, <<>>)

\* the __str__ of each line of a list, in order
RECURSIVE str_each(_, _)
str_each(lines, k) ==
    IF k > Len(lines) THEN <<>> ELSE <<__str__(lines[k])>> \o str_each(lines, k + 1)

\* contents with the texts of the blocks joined by one newline
contents_one_newline(lines) == Join(str_each(lines, 1), NL)

\* ListOfSRTLine.contents
contents(lines) == Join(str_each(lines, 1), <<"\n", "\n">>)

(***************************************************************************)
(* SRTLine.num: constructions, parses, assignments and insertions.         *)
(***************************************************************************)
\* the values given as num: an int, the text of an int, of a negative int,
\* a text that is no number, and None
NumInputs ==
    {PyInt(3), PyStr(<<"7">>), PyStr(<<"-", "3">>), PyStr(<<"x">>), PyNone}

\* the chunk of an SRT file whose index line is the text s
ChunkOf(s) == Join(<<s, TimingLine(0, 1000), <<"a">>>>, NL)

InitNum ==
    /\ op = "start"
    /\ ret = NoRet
    /\ CutIdle
    /\ TsIdle /\ SrtIdle
    /\ given = [kind |-> "num"]
    /\ self = <<>>
    /\ inserted = <<>>

\* self.append(SRTLine(num, time_range, dialogue))
CallSRTLine ==
    /\ given.kind = "num"
    /\ Len(self) < MaxNumLines
    /\ \E n \in NumInputs :
        /\ call' = [n |-> n, k |-> Len(self) + 1]
        /\ self' = Append(self, SRTLine__init__(n, TimingLine(0, 1000), <<<<"a">>>>))
    /\ op' = "SRTLine"
    /\ UNCHANGED <<ts_arg, given, kwargs, ret, blocks, text, inserted, locals, trace>>

\* self.append(SRTLine.parse(chunk)), the index line of the chunk a text
CallParseNum ==
    /\ given.kind = "num"
    /\ Len(self) < MaxNumLines
    /\ \E n \in {v \in NumInputs : v.type = "str"} :
        /\ call' = [n |-> n, k |-> Len(self) + 1]
        /\ self' = Append(self, parse(ChunkOf(n.str)).val)
    /\ op' = "parse"
    /\ UNCHANGED <<ts_arg, given, kwargs, ret, blocks, text, inserted, locals, trace>>

\* self[k].num = n
AssignNum ==
    /\ given.kind = "num"
    /\ \E k \in 1..Len(self), n \in NumInputs :
        /\ call' = [n |-> n, k |-> k]
        /\ self' = [self EXCEPT ![k] = num_setter(self[k], n)]
    /\ op' = "num"
    /\ UNCHANGED <<ts_arg, given, kwargs, ret, blocks, text, inserted, locals, trace>>

\* self.insert(i, SRTLine(num, time_range, dialogue))
CallInsertNum ==
    /\ given.kind = "num"
    /\ Len(self) < MaxNumLines
    /\ \E i \in 0..Len(self), n \in NumInputs :
        /\ call' = [n |-> n, k |-> i + 1]
        /\ self' = insert(self, i,
                          SRTLine__init__(n, TimingLine(1000, 2000), <<<<"b">>>>))
    /\ op' = "insert"
    /\ UNCHANGED <<ts_arg, given, kwargs, ret, blocks, text, inserted, locals, trace>>

NextNum == CallSRTLine \/ CallParseNum \/ AssignNum \/ CallInsertNum

SpecNum == InitNum /\ [][NextNum]_vars

\* the value is neither an int nor the text of one
Unparsable(n) == n.type # "int" /\ (n.type = "str" => int(n.str).exc # "")

\* C12: after any sequence of constructions, parses, assignments to num and
\* insertions the num of every SRTLine is a non-negative integer, and a value
\* that cannot be parsed as an integer gives a num of 0.
C12_NumNonNegative ==
    given.kind = "num" =>
        /\ \A k \in 1..Len(self) : self[k].num \in Nat
        /\ (op \in {"SRTLine", "parse", "num"} /\ Unparsable(call.n)) =>
                self[call.k].num = 0

(***************************************************************************)
(* SRTLine.parse, SRTLine.__str__, ListOfSRTLine(text) and contents:       *)
(* inputs and calls.                                                       *)
(***************************************************************************)
\* the lines a chunk of text is written from
ChunkLines == {<<"1">>, TimingLine(0, 1000), <<"a">>}

Chunks ==
    {[kind |-> "chunk", lines |-> ls] : ls \in SeqsOf(ChunkLines, 0, 3)}

\* dialogue lines that are not blank: a word, a word followed by a space, two
\* words
DialogueLines == {<<"a">>, <<"a", " ">>, <<"a", " ", "b">>}

\* SRTLine objects with an int as num and a time range that is not empty
BlockObjects ==
    {[kind |-> "block",
      block |-> SRTLine__init__(PyInt(n), t, d)] :
        n \in {1, 12, -3},
        t \in {TimingLine(0, 1000), TimingLine(0, 1000) \o <<" ">>},
        d \in SeqsOf(DialogueLines, 0, MaxDialogueLines)}

\* the blocks a text is written from: the text of the index and the dialogue
SequenceBlocks ==
    [index_zeros : {0, 1}, dialogue : {<<>>, <<<<"a">>>>, <<<<"a", " ">>>>, <<<<"a">>, <<"b">>>>}]

Sequences ==
    {[kind |-> "sequence", chunks |-> c] : c \in SeqsOf(SequenceBlocks, 1, MaxSeqBlocks)}

\* the text of the k-th block of a sequence: its index is k, written with
\* index_zeros zeros before it
SequenceChunk(b, k) ==
    Join(<<ZeroPad(str(k), Len(str(k)) + b.index_zeros),
           TimingLine(1000 * (k - 1), 1000 * k)>> \o b.dialogue, NL)

WriteSequence(chunks) ==
    Join([k \in 1..Len(chunks) |-> SequenceChunk(chunks[k], k)], <<"\n", "\n">>)

InitBlock ==
    /\ op = "start"
    /\ ret = NoRet
    /\ CutIdle
    /\ TsIdle /\ ListIdle
    /\ blocks = <<>>
    /\ call = <<>>
    /\ given \in Chunks \cup BlockObjects \cup Sequences
    /\ text = CASE given.kind = "chunk" -> Join(given.lines, NL)
                [] given.kind = "sequence" -> WriteSequence(given.chunks)
                [] OTHER -> <<>>

\* SRTLine.parse(lines)
CallParse ==
    /\ op = "start"
    /\ given.kind = "chunk"
    /\ ret' = parse(text)
    /\ op' = "parse"
    /\ UNCHANGED <<ts_arg, given, kwargs, blocks, text, call, self, inserted, locals, trace>>

\* str(block)
CallStr ==
    /\ op = "start"
    /\ given.kind = "block"
    /\ ret' = Ok(__str__(given.block))
    /\ op' = "str"
    /\ UNCHANGED <<ts_arg, given, kwargs, blocks, text, call, self, inserted, locals, trace>>

\* SRTLine.parse(str(block))
CallParseOfStr ==
    /\ op = "str"
    /\ call' = [once |-> ret.val, parsed |-> NoLine]
    /\ ret' = parse(ret.val)
    /\ op' = "parse_str"
    /\ UNCHANGED <<ts_arg, given, kwargs, blocks, text, self, inserted, locals, trace>>

\* str(SRTLine.parse(str(block)))
CallStrOfParse ==
    /\ op = "parse_str"
    /\ ret.exc = ""
    /\ call' = [call EXCEPT !.parsed = ret.val]
    /\ ret' = Ok(__str__(ret.val))
    /\ op' = "str_parse_str"
    /\ UNCHANGED <<ts_arg, given, kwargs, blocks, text, self, inserted, locals, trace>>

\* ListOfSRTLine(text)
CallListOfSRTLine ==
    /\ op = "start"
    /\ given.kind = "sequence"
    /\ ret' = ListOfSRTLine__init__(text)
    /\ self' = IF ret'.exc = "" THEN ret'.val ELSE self
    /\ op' = "ListOfSRTLine"
    /\ UNCHANGED <<ts_arg, given, kwargs, blocks, text, call, inserted, locals, trace>>

\* ListOfSRTLine(text).contents
CallContents ==
    /\ op = "ListOfSRTLine"
    /\ ret.exc = ""
    /\ ret' = Ok(contents(self))
    /\ op' = "contents"
    /\ UNCHANGED <<ts_arg, given, kwargs, blocks, text, call, self, inserted, locals, trace>>

NextBlock ==
    \/ CallParse
    \/ CallStr
    \/ CallParseOfStr
    \/ CallStrOfParse
    \/ CallListOfSRTLine
    \/ CallContents

SpecBlock == InitBlock /\ [][NextBlock]_vars

\* C13: SRTLine.parse of a chunk of fewer than two lines does not raise and
\* returns a block whose time_range and dialogue are empty.
C13_ShortChunkTolerated ==
    (op = "parse" /\ Len(given.lines) < 2) =>
        /\ ret.exc = ""
        /\ ret.val.time_range = <<>>
        /\ ret.val.dialogue = <<>>

\* the last line of the text of the block: its last dialogue line, or its time
\* range when it has no dialogue
LastLineOf(block) ==
    IF block.dialogue = <<>> THEN block.time_range
    ELSE block.dialogue[Len(block.dialogue)]

EndsWithSpace(s) == s # <<>> /\ IsSpace(s[Len(s)])

\* the text of the block is read back as it was written, and the block read
\* back has the time_range and the dialogue of the block
ReadBack ==
    /\ op = "parse_str" =>
        /\ ret.exc = ""
        /\ ret.val.time_range = given.block.time_range
        /\ ret.val.dialogue = given.block.dialogue
    /\ op = "str_parse_str" => ret = Ok(call.once)

\* C14, as stated: for every block with an integer index, a time range that
\* is not empty and dialogue lines that are not blank,
\* str(SRTLine.parse(str(block))) == str(block), and the block parsed has the
\* same time_range and dialogue.
C14_BlockRoundTrip ==
    op \in {"parse_str", "str_parse_str"} => ReadBack

\* C14, amended: the same, for the blocks whose last line (the last dialogue
\* line, or the time range of a block without dialogue) does not end with
\* whitespace.
C14_BlockRoundTripNoTrailingSpace ==
    (op \in {"parse_str", "str_parse_str"}
        /\ ~EndsWithSpace(LastLineOf(given.block))) => ReadBack

\* a block of index 12 with two dialogue lines, the first one ending with a
\* space, has been written, parsed and written again to the same text
C14_Witness ==
    /\ op = "str_parse_str"
    /\ given.block.num = 12
    /\ given.block.dialogue = <<<<"a", " ">>, <<"a", " ", "b">>>>
    /\ call.parsed.dialogue = given.block.dialogue
    /\ ret = Ok(call.once)

\* the list holds the blocks of the text, in file order
HoldsBlocksInOrder ==
    /\ Len(self) = Len(given.chunks)
    /\ \A k \in 1..Len(self) :
        /\ self[k].num = k
        /\ self[k].time_range = TimingLine(1000 * (k - 1), 1000 * k)

SequenceReadBack ==
    /\ ret.exc = ""
    /\ HoldsBlocksInOrder
    /\ op = "contents" => ret = Ok(text)

\* C15, as stated: for a text of n >= 1 well-formed blocks joined by one blank
\* line, with no whitespace before or after it, ListOfSRTLine(text) holds the
\* n blocks in file order and its contents is the text.
C15_SequenceRoundTrip ==
    (op \in {"ListOfSRTLine", "contents"} /\ ~EndsWithSpace(text)) =>
        SequenceReadBack

\* every block of the text has its index written as str() writes an int, and
\* no block ends with whitespace
CanonicalBlocks ==
    \A k \in 1..Len(given.chunks) :
        /\ given.chunks[k].index_zeros = 0
        /\ given.chunks[k].dialogue # <<>> =>
            ~EndsWithSpace(given.chunks[k].dialogue[Len(given.chunks[k].dialogue)])

\* C15, amended: the same, for the texts in which every index line is the
\* decimal text of the integer as str() writes it and no block ends with
\* whitespace.
C15_CanonicalSequenceRoundTrip ==
    (op \in {"ListOfSRTLine", "contents"} /\ CanonicalBlocks) => SequenceReadBack

\* the contents of the list made from a text of two blocks, one of them with
\* two dialogue lines and one a blank cue, is the text
C15_Witness ==
    /\ op = "contents"
    /\ Len(given.chunks) = 2
    /\ CanonicalBlocks
    /\ given.chunks[1].dialogue = <<<<"a">>, <<"b">>>>
    /\ given.chunks[2].dialogue = <<>>
    /\ Len(self) = 2
    /\ ret = Ok(text)

(***************************************************************************)
(* helper.py: ThreePlayHelper.cut_transcript_in_middle                     *)
(*                                                                         *)
(* The method runs in three steps: the clip ranges are computed, the       *)
(* transcript text is fetched with ThreePlayApi.get_formatted_transcript_  *)
(* text, and the text fetched is corrected.  trace holds the calls made to *)
(* the fetch and to the two corrections, in order.                         *)
(***************************************************************************)
\* first_end_ms once `if second_offset_ms: first_end_ms += second_offset_ms`
\* has run, without the addition
extended_first_end_ms_no_offset(initial_first_end_ms, second_offset_ms) ==
    initial_first_end_ms

\* first_end_ms once `if second_offset_ms: first_end_ms += second_offset_ms`
\* has run
extended_first_end_ms(initial_first_end_ms, second_offset_ms) ==
    IF second_offset_ms # 0
    THEN initial_first_end_ms + second_offset_ms
    ELSE initial_first_end_ms

\* clips = [f'0,{first_end_ms}', f'{second_start_ms},{second_end_ms}']
clips_of(first_end_ms, second_start_ms, second_end_ms) ==
    <<<<"0", ",">> \o str_int(first_end_ms),
      str_int(second_start_ms) \o <<",">> \o str_int(second_end_ms)>>

\* the name of the correction the last if statement applies
correction_of(second_offset_ms) ==
    IF second_offset_ms # 0
    THEN "remove_dialogue_between"
    ELSE "remove_dialogue_for_first_ts"

\* the last if statement with remove_dialogue_for_first_ts applied in both
\* branches, after the range-based removal in the first one
cut_correct_both(fetched, first_end, initial_first_end_ms, first_end_ms, second_offset_ms) ==
    The({IF r.exc # "" THEN r
         ELSE Ok(remove_dialogue_for_first_ts(r.val, first_end)) :
            r \in {IF second_offset_ms # 0
                   THEN remove_dialogue_between(fetched, initial_first_end_ms,
                                                first_end_ms)
                   ELSE Ok(fetched)}})

\* the last if statement with the range starting at the extended boundary
cut_correct_from_extended(fetched, first_end, initial_first_end_ms, first_end_ms, second_offset_ms) ==
    IF second_offset_ms # 0
    THEN remove_dialogue_between(fetched, first_end_ms, first_end_ms)
    ELSE Ok(remove_dialogue_for_first_ts(fetched, first_end))

\* the last if statement: the text returned
cut_correct(fetched, first_end, initial_first_end_ms, first_end_ms, second_offset_ms) ==
    IF second_offset_ms # 0
    THEN remove_dialogue_between(fetched, initial_first_end_ms, first_end_ms)
    ELSE Ok(remove_dialogue_for_first_ts(fetched, first_end))

\* the first_end of a call and the milliseconds it was written from: two
\* timestamps, and a text that is no timestamp
FirstEnds ==
    {[ts |-> WriteMs(v), ms |-> v] : v \in {0, 1000}}
        \cup {[ts |-> <<"x">>, ms |-> -1]}

\* the second_end of a call: the default '99:99:99,999', and 0:00:05,000
SecondEnds ==
    {[ts |-> <<"9", "9", ":", "9", "9", ":", "9", "9", ",", "9", "9", "9">>,
      ms |-> 362439999],
     [ts |-> WriteMs(5000), ms |-> 5000]}

SecondOffsets == {0, 1000, 2000, -1000}

\* the texts the service may answer with
FetchedFiles == {f \in Files : Len(f) <= MaxFetchedBlocks}

InitCut ==
    /\ op = "start"
    /\ ret = NoRet
    /\ TsIdle /\ ListIdle
    /\ locals = <<>>
    /\ trace = <<>>
    /\ blocks \in FetchedFiles
    /\ \E fe \in FirstEnds, se \in SecondEnds, off \in SecondOffsets,
          nl \in BOOLEAN :
        /\ given = [kind |-> "cut", first_end_ms |-> fe.ms,
                    second_start_ms |-> 3000, second_end_ms |-> se.ms,
                    newline_at_end |-> nl]
        /\ call = [first_end |-> fe.ts, second_start |-> WriteMs(3000),
                   second_offset_ms |-> off, second_end |-> se.ts]
        /\ text = WriteSrt(blocks, nl)

\* from the first line of the body to the assignment of clips
CutClips ==
    /\ op = "start"
    /\ given.kind = "cut"
    /\ \E a \in {total_ms(call.first_end)}, b \in {total_ms(call.second_start)},
          c \in {total_ms(call.second_end)} :
        IF a.exc # "" \/ b.exc # "" \/ c.exc # ""
        THEN /\ ret' = Raise("ValueError", <<>>)
             /\ op' = "raised"
             /\ UNCHANGED locals
        ELSE /\ \E first_end_ms \in
                    {extended_first_end_ms(a.val, call.second_offset_ms)} :
                locals' = [initial_first_end_ms |-> a.val,
                           first_end_ms    |-> first_end_ms,
                           second_start_ms |-> b.val,
                           second_end_ms   |-> c.val,
                           clips |-> clips_of(first_end_ms, b.val, c.val),
                           text  |-> <<>>]
             /\ op' = "clips"
             /\ UNCHANGED ret
    /\ UNCHANGED <<ts_arg, given, kwargs, blocks, text, call, self, inserted, trace>>

\* text = ThreePlayApi.get_formatted_transcript_text(transcript_id, clips=clips)
CutFetch ==
    /\ op = "clips"
    /\ trace' = Append(trace, [f |-> "get_formatted_transcript_text",
                               args |-> locals.clips])
    /\ locals' = [locals EXCEPT !.text = text]
    /\ op' = "fetched"
    /\ UNCHANGED <<ts_arg, given, kwargs, ret, blocks, text, call, self, inserted>>

\* the fetch raises, and the exception leaves the method
CutFetchRaises ==
    /\ op = "clips"
    /\ trace' = Append(trace, [f |-> "get_formatted_transcript_text",
                               args |-> locals.clips])
    /\ ret' = Raise("RequestException", <<>>)
    /\ op' = "raised"
    /\ UNCHANGED <<ts_arg, given, kwargs, blocks, text, call, self, inserted, locals>>

\* the last if statement, and the return
CutCorrect ==
    /\ op = "fetched"
    /\ trace' = Append(trace, [f |-> correction_of(call.second_offset_ms),
                               args |-> <<>>])
    /\ ret' = cut_correct(locals.text, call.first_end,
                          locals.initial_first_end_ms, locals.first_end_ms,
                          call.second_offset_ms)
    /\ op' = "returned"
    /\ UNCHANGED <<ts_arg, given, kwargs, blocks, text, call, self, inserted, locals>>

NextCut == CutClips \/ CutFetch \/ CutFetchRaises \/ CutCorrect

SpecCut == InitCut /\ [][NextCut]_vars

(***************************************************************************)
(* Properties of cut_transcript_in_middle.                                 *)
(***************************************************************************)
\* the positions of trace that hold a fetch
Fetches ==
    {i \in 1..Len(trace) : trace[i].f = "get_formatted_transcript_text"}

\* the two clip ranges, written from the milliseconds the arguments of the
\* call were written from
ExpectedClips ==
    <<<<"0", ",">> \o str_int(given.first_end_ms + call.second_offset_ms),
      str_int(given.second_start_ms) \o <<",">> \o str_int(given.second_end_ms)>>

\* C16: cut_transcript_in_middle fetches exactly once, before any correction,
\* and gives the fetch the clip ranges "0,<first_end_ms + second_offset_ms>"
\* and "<second_start_ms>,<second_end_ms>", in that order.
C16_OneFetchFirst ==
    given.kind = "cut" =>
        /\ op \in {"start", "clips"} => trace = <<>>
        /\ op \in {"fetched", "returned"} =>
            /\ Fetches = {1}
            /\ trace[1].args = ExpectedClips
        /\ op = "returned" =>
            /\ Len(trace) = 2
            /\ trace[2].f \in {"remove_dialogue_between",
                               "remove_dialogue_for_first_ts"}

\* a call with first_end '0:00:01,000', an offset of 1000 ms and the default
\* second_end has returned after one fetch of "0,2000" and "3000,362439999"
C16_Witness ==
    /\ op = "returned"
    /\ call.second_offset_ms = 1000
    /\ given.first_end_ms = 1000
    /\ given.second_end_ms = 362439999
    /\ Len(trace) = 2
    /\ trace[1] = [f |-> "get_formatted_transcript_text",
                   args |-> <<<<"0", ",", "2", "0", "0", "0">>,
                              <<"3", "0", "0", "0", ",",
                                "3", "6", "2", "4", "3", "9", "9", "9", "9">>>>]

\* C17: cut_transcript_in_middle applies one of its two corrections to the
\* text fetched: remove_dialogue_for_first_ts(fetched, first_end) when
\* second_offset_ms is 0, and the removal of the range alone otherwise.
C17_OneCorrection ==
    (given.kind = "cut" /\ op = "returned") =>
        /\ Cardinality({i \in 1..Len(trace) :
                trace[i].f \in {"remove_dialogue_between",
                                "remove_dialogue_for_first_ts"}}) = 1
        /\ IF call.second_offset_ms = 0
           THEN /\ trace[2].f = "remove_dialogue_for_first_ts"
                /\ ret = Ok(remove_dialogue_for_first_ts(text, call.first_end))
           ELSE /\ trace[2].f = "remove_dialogue_between"
                /\ ret = remove_dialogue_between(text, given.first_end_ms,
                            given.first_end_ms + call.second_offset_ms)

\* a call with a negative offset has returned the text fetched, in which a
\* block that starts at first_end has kept the dialogue that
\* remove_dialogue_for_first_ts would have removed
C17_Witness ==
    /\ op = "returned"
    /\ call.second_offset_ms = -1000
    /\ trace[2].f = "remove_dialogue_between"
    /\ ret = Ok(text)
    /\ remove_dialogue_for_first_ts(text, call.first_end) # text

\* the blocks of the text fetched whose start is in the set starts have lost
\* their dialogue, and nothing else of the text has changed
ReturnedWithout(starts) ==
    ret = Ok(WriteSrt(WithoutDialogue({k \in 1..Len(blocks) :
                                           blocks[k].start \in starts}),
                      given.newline_at_end))

\* C18, as stated: with a non-zero second_offset_ms the dialogue is removed of
\* exactly the blocks whose start is strictly between first_end_ms and
\* first_end_ms + second_offset_ms; a block that starts at first_end_ms keeps
\* its dialogue.
C18_RemovesStrictlyBetween ==
    (given.kind = "cut" /\ op = "returned" /\ call.second_offset_ms # 0) =>
        ReturnedWithout((given.first_end_ms + 1)..
                        (given.first_end_ms + call.second_offset_ms - 1))

\* C18, amended: with a non-zero second_offset_ms the dialogue is removed of
\* exactly the blocks whose start is at or after first_end_ms and before
\* first_end_ms + second_offset_ms; a block that starts at first_end_ms loses
\* its dialogue.
C18_RemovesFromFirstEnd ==
    (given.kind = "cut" /\ op = "returned" /\ call.second_offset_ms # 0) =>
        ReturnedWithout(given.first_end_ms..
                        (given.first_end_ms + call.second_offset_ms - 1))

\* a call with first_end at 0 and an offset of 1000 ms has removed the
\* dialogue of a block that starts at 0 and kept that of a block that starts
\* at 1000
C18_Witness ==
    /\ op = "returned"
    /\ given.first_end_ms = 0
    /\ call.second_offset_ms = 1000
    /\ Len(blocks) = 2
    /\ blocks[1].start = 0 /\ blocks[1].dialogue # <<>>
    /\ blocks[2].start = 1000 /\ blocks[2].dialogue # <<>>
    /\ ret.val # text
    /\ Contains(ret.val, blocks[2].dialogue[1])

(***************************************************************************)
(* SRT texts with a space inside a start timestamp.                        *)
(***************************************************************************)
\* the timestamp with a space after the comma: 0:00:01, 000
WriteSpacedMs(ms) ==
    The({Upto(w, Len(w) - 3) \o <<" ">> \o From(w, Len(w) - 3) : w \in {WriteMs(ms)}})

SpacedBlockLines(b, k) ==
    <<str(k),
      (IF b.spaced THEN WriteSpacedMs(b.start) ELSE WriteMs(b.start))
          \o <<" ", "-", "-", ">", " ">> \o WriteMs(b.end)>> \o b.dialogue

RECURSIVE SpacedFileLines(_, _, _)
SpacedFileLines(bs, k, newline_at_end) ==
    IF k > Len(bs) THEN (IF newline_at_end /\ Len(bs) > 0 THEN <<<<>>>> ELSE <<>>)
    ELSE SpacedBlockLines(bs[k], k)
           \o (IF k < Len(bs) THEN <<<<>>>> ELSE <<>>)
           \o SpacedFileLines(bs, k + 1, newline_at_end)

WriteSpacedSrt(bs, newline_at_end) ==
    The({Join(SpacedFileLines(v, 1, newline_at_end), NL) : v \in {bs}})

\* the files of 1..MaxSpacedBlocks blocks, each block with or without the space
SpacedFiles ==
    UNION {{[k \in 1..Len(f) |->
                [start |-> f[k].start, end |-> f[k].end,
                 dialogue |-> f[k].dialogue, spaced |-> sp[k]]] :
            sp \in [1..Len(f) -> BOOLEAN]} :
        f \in {g \in Files : Len(g) \in 1..MaxSpacedBlocks}}

InitSpaced ==
    /\ op = "start"
    /\ ret = NoRet
    /\ CutIdle
    /\ TsIdle /\ ListIdle
    /\ call = <<>>
    /\ blocks \in SpacedFiles
    /\ \E nl \in BOOLEAN :
        /\ given = [kind |-> "srt", newline_at_end |-> nl]
        /\ text = WriteSpacedSrt(blocks, nl)

NextSpaced == CallRemoveDialogueForFirstTs

SpecSpaced == InitSpaced /\ [][NextSpaced]_vars

\* C19: remove_dialogue_for_first_ts takes the first timing line whose start
\* timestamp, the spaces inside it removed, equals ts, and removes the
\* dialogue under it up to the blank line that follows.
C19_MatchesSpacedStart ==
    (/\ op = "remove_dialogue_for_first_ts"
     /\ \E k \in 1..Len(blocks) : Matches(k)
     /\ (FirstMatch < Len(blocks) \/ given.newline_at_end)) =>
        ret = Ok(WriteSpacedSrt(WithoutDialogue({FirstMatch}),
                                given.newline_at_end))

(***************************************************************************)
(* Properties of total_seconds, checked under SpecTs.                      *)
(***************************************************************************)
\* '<s>.<m>': the seconds of ms milliseconds, a period, and the three digits
\* of what is left
SecondsText(ms) ==
    str(ms \div 1000)
      \o <<".", Digits[((ms % 1000) \div 100) + 1],
                Digits[(((ms % 1000) \div 10) % 10) + 1],
                Digits[(ms % 10) + 1]>>

\* C20: total_seconds(ts) is '<s>.<m>' with s = total_ms(ts) div 1000 and
\* m = total_ms(ts) mod 1000 padded with zeros to three digits, for every ts
\* that total_ms parses.
C20_TotalSecondsText ==
    op = "total_seconds" =>
        /\ given.kind = "formatted" =>
            ret = Ok(SecondsText(Fold60(given.comps, 0) * 1000 + given.ms))
        /\ given.kind = "raw" =>
            \E ms \in {total_ms(ts_arg)} :
                IF ms.exc = "" THEN ret = Ok(SecondsText(ms.val))
                ELSE ret.exc = ms.exc

\* total_seconds("1:20:32,5") has returned "4832.005"
C20_Witness ==
    /\ op = "total_seconds"
    /\ ts_arg = <<"1", ":", "2", "0", ":", "3", "2", ",", "5">>
    /\ ret = Ok(<<"4", "8", "3", "2", ".", "0", "0", "5">>)

(***************************************************************************)
(* C23: total_ms validates no range.                                       *)
(***************************************************************************)
\* C23: total_ms folds hour, minute and second components of any magnitude
\* without validating a range: total_ms('99:99:99,999') is 362439999 and
\* total_ms('100:00:00,000') is 360000000.
C23_NoRangeValidation ==
    (op = "total_ms" /\ given.kind = "formatted") =>
        /\ ret.exc = ""
        /\ ts_arg = <<"9", "9", ":", "9", "9", ":", "9", "9", ",", "9", "9", "9">>
             => ret = Ok(362439999)
        /\ ts_arg = <<"1", "0", "0", ":", "0", "0", ":", "0", "0", ",", "0", "0", "0">>
             => ret = Ok(360000000)

\* total_ms('99:99:99,999') has returned 362439999
C23_Witness ==
    /\ op = "total_ms"
    /\ ts_arg = <<"9", "9", ":", "9", "9", ":", "9", "9", ",", "9", "9", "9">>
    /\ ret = Ok(362439999)

(***************************************************************************)
(* helper.py: ThreePlayHelper.as_turnaround                                *)
(***************************************************************************)
LowerCase == <<"a", "b", "c", "d", "e", "f", "g", "h", "i", "j", "k", "l", "m", "n", "o", "p", "q", "r", "s", "t", "u", "v", "w", "x", "y", "z">>

UpperCase == <<"A", "B", "C", "D", "E", "F", "G", "H", "I", "J", "K", "L", "M", "N", "O", "P", "Q", "R", "S", "T", "U", "V", "W", "X", "Y", "Z">>

\* s.upper(), character by character
upper(s) ==
    [i \in 1..Len(s) |->
        IF \E k \in 1..26 : LowerCase[k] = s[i]
        THEN UpperCase[CHOOSE k \in 1..26 : LowerCase[k] = s[i]]
        ELSE s[i]]

\* a member of an enumeration class
Member(cls, name, id) == [type |-> "enum", cls |-> cls, name |-> name, id |-> id]

\* class Turnaround(TurnaroundBase): its members, in definition order
Turnaround ==
    <<Member("Turnaround", <<"S", "T", "A", "N", "D", "A", "R", "D">>, 1),
      Member("Turnaround", <<"S", "A", "M", "E", "_", "D", "A", "Y">>, 2),
      Member("Turnaround", <<"R", "U", "S", "H">>, 3),
      Member("Turnaround", <<"E", "X", "P", "E", "D", "I", "T", "E", "D">>, 4),
      Member("Turnaround", <<"E", "X", "T", "E", "N", "D", "E", "D">>, 5),
      Member("Turnaround", <<"T", "W", "O", "_", "H", "O", "U", "R">>, 6)>>

\* class TurnaroundAD(TurnaroundBase)
TurnaroundAD ==
    <<Member("TurnaroundAD", <<"S", "T", "A", "N", "D", "A", "R", "D">>, 7),
      Member("TurnaroundAD", <<"E", "X", "P", "E", "D", "I", "T", "E", "D">>, 8),
      Member("TurnaroundAD", <<"R", "U", "S", "H">>, 9)>>

\* cls[name]: the member of that name, or KeyError
getitem(cls, name) ==
    IF \E k \in 1..Len(cls) : cls[k].name = name
    THEN Ok(cls[CHOOSE k \in 1..Len(cls) : cls[k].name = name])
    ELSE Raise("KeyError", name)

\* as_turnaround looking the name up in Turnaround, whatever cls is
as_turnaround_in_turnaround(turnaround_name, default, cls) ==
    IF ~IsFalsy(turnaround_name)
    THEN The({IF turnaround.exc = "" THEN turnaround
              ELSE Raise("InvalidTurnaround", turnaround_name) :
                 turnaround \in {getitem(Turnaround,
                     Replace(upper(turnaround_name.str), " ", "_"))}})
    ELSE Ok(default)

\* ThreePlayHelper.as_turnaround
as_turnaround(turnaround_name, default, cls) ==
    IF ~IsFalsy(turnaround_name)
    THEN The({IF turnaround.exc = "" THEN turnaround
              ELSE Raise("InvalidTurnaround", turnaround_name) :
                 turnaround \in {getitem(cls,
                     Replace(upper(turnaround_name.str), " ", "_"))}})
    ELSE Ok(default)

(***************************************************************************)
(* as_turnaround: inputs and calls.                                        *)
(***************************************************************************)
\* the names passed as turnaround_name: None, the empty text, member names
\* in several spellings and texts that name no member
TurnaroundNames ==
    {PyNone} \cup {PyStr(s) : s \in {
        <<>>,
        <<"T", "w", "o", " ", "h", "o", "u", "r">>,
        <<"t", "w", "o", "_", "h", "o", "u", "r">>,
        <<"T", "W", "O", " ", "H", "O", "U", "R">>,
        <<"S", "T", "A", "N", "D", "A", "R", "D">>,
        <<"s", "t", "a", "n", "d", "a", "r", "d">>,
        <<"T", "e", "s", "t", "i", "n", "g">>,
        <<"r", "u", "s", "h">>,
        <<"E", "x", "t", "e", "n", "d", "e", "d">>,
        <<"s", "a", "m", "e", " ", "d", "a", "y">>,
        <<"S", "a", "m", "e", " ", " ", "d", "a", "y">>,
        <<" ", "r", "u", "s", "h">>,
        <<"e", "x", "p", "e", "d", "i", "t", "e", "d">>,
        <<" ">>,
        <<"t", "w", "o", "-", "h", "o", "u", "r">>}}

TurnaroundClasses == {Turnaround, TurnaroundAD}

TurnaroundDefaults == {PyNone, Turnaround[1], TurnaroundAD[3]}

InitTurn ==
    /\ op = "start"
    /\ ret = NoRet
    /\ CutIdle
    /\ TsIdle /\ SrtIdle /\ ListIdle
    /\ given \in {[kind |-> "turnaround", turnaround_name |-> n, default |-> d,
                   cls |-> c] :
                     n \in TurnaroundNames, d \in TurnaroundDefaults,
                     c \in TurnaroundClasses}

\* ThreePlayHelper.as_turnaround(turnaround_name, default, cls)
CallAsTurnaround ==
    /\ op = "start"
    /\ given.kind = "turnaround"
    /\ ret' = as_turnaround(given.turnaround_name, given.default, given.cls)
    /\ op' = "as_turnaround"
    /\ UNCHANGED <<ts_arg, given, kwargs, blocks, text, call, self, inserted, locals, trace>>

NextTurn == CallAsTurnaround

SpecTurn == InitTurn /\ [][NextTurn]_vars

\* the member names of cls, as the class statement writes them
MemberNames(cls) == {cls[k].name : k \in 1..Len(cls)}

\* the name with every letter in upper case and every space an underscore
Normalised(name) ==
    [i \in 1..Len(name) |->
        IF name[i] = " " THEN "_"
        ELSE IF \E k \in 1..26 : LowerCase[k] = name[i]
             THEN UpperCase[CHOOSE k \in 1..26 : LowerCase[k] = name[i]]
             ELSE name[i]]

\* C21: as_turnaround returns default for an empty or missing name, the member
\* of cls whose name is the given one upper-cased with underscores for its
\* spaces when cls has such a member, and raises InvalidTurnaround for every
\* other name.
C21_AsTurnaround ==
    (op = "as_turnaround") =>
        LET name == given.turnaround_name
        IN  IF name.type = "NoneType" \/ name.str = <<>>
            THEN ret = Ok(given.default)
            ELSE IF Normalised(name.str) \in MemberNames(given.cls)
            THEN /\ ret.exc = ""
                 /\ ret.val \in {given.cls[k] : k \in 1..Len(given.cls)}
                 /\ ret.val.name = Normalised(name.str)
            ELSE ret.exc = "InvalidTurnaround"

\* as_turnaround('STANDARD', cls=TurnaroundAD) has returned
\* TurnaroundAD.STANDARD, whose id is 7
C21_Witness ==
    /\ op = "as_turnaround"
    /\ given.turnaround_name = PyStr(<<"S", "T", "A", "N", "D", "A", "R", "D">>)
    /\ given.cls = TurnaroundAD
    /\ ret = Ok(Member("TurnaroundAD", <<"S", "T", "A", "N", "D", "A", "R", "D">>, 7))

(***************************************************************************)
(* models.py: the setter of SRTLine.dialogue, and textwrap.wrap as it is   *)
(* called there (all options at their defaults).  The texts of this model  *)
(* hold letters, spaces and single hyphens; the em-dash branches of the    *)
(* chunk pattern never apply to them.                                      *)
(***************************************************************************)
\* a list of lines given as dialogue
PyList(l) == [type |-> "list", int |-> 0, str |-> <<>>, list |-> l]

\* [^\d\W] for the characters of this model
IsLetter(c) == \E k \in 1..26 : c = LowerCase[k] \/ c = UpperCase[k]

\* the hyphen at i ends a chunk: two letters (or letter, hyphen, letter)
\* stand before it and two letters (or letter, hyphen, letter) after it
HyphenEndsChunk(s, i) ==
    /\ s[i] = "-"
    /\ i >= 3 /\ IsLetter(s[i - 1])
    /\ \/ IsLetter(s[i - 2])
       \/ i >= 4 /\ s[i - 2] = "-" /\ IsLetter(s[i - 3])
    /\ i + 2 <= Len(s) /\ IsLetter(s[i + 1])
    /\ \/ IsLetter(s[i + 2])
       \/ i + 3 <= Len(s) /\ s[i + 2] = "-" /\ IsLetter(s[i + 3])

\* the last position of the chunk of wordsep_re that starts at p
ChunkEnd(s, p) ==
    IF s[p] = " "
    THEN Min({q \in p..Len(s) : q = Len(s) \/ s[q + 1] # " "})
    ELSE Min({e \in p..Len(s) :
                 \/ e > p /\ HyphenEndsChunk(s, e)
                 \/ e = Len(s)
                 \/ s[e + 1] = " "})

\* TextWrapper._split: the chunks of the text from position p on
RECURSIVE _split(_, _)
_split(s, p) ==
    IF p > Len(s) THEN <<>>
    ELSE The({<<SubSeq(s, p, e)>> \o _split(s, e + 1) : e \in {ChunkEnd(s, p)}})

\* chunk.strip() == ''
IsBlankChunk(chunk) == \A i \in 1..Len(chunk) : chunk[i] = " "

\* ''.join(cur_line)
RECURSIVE Concat(_)
Concat(cur_line) ==
    IF cur_line = <<>> THEN <<>> ELSE Head(cur_line) \o Concat(Tail(cur_line))

\* the inner loop of _wrap_chunks: chunks move to the line while they fit
RECURSIVE fill_line(_, _, _, _)
fill_line(chunks, cur_line, cur_len, width) ==
    IF chunks # <<>> /\ cur_len + Len(Head(chunks)) <= width
    THEN fill_line(Tail(chunks), Append(cur_line, Head(chunks)),
                   cur_len + Len(Head(chunks)), width)
    ELSE [chunks |-> chunks, cur_line |-> cur_line, cur_len |-> cur_len]

\* TextWrapper._handle_long_word, for width >= 1
_handle_long_word(chunks, cur_line, cur_len, width) ==
    LET space_left == width - cur_len
        chunk == Head(chunks)
        \* chunk.rfind('-', 0, space_left), 0-based, -1 for none
        hyphen == Max({-1} \cup {i - 1 : i \in {j \in 1..Min({space_left, Len(chunk)}) :
                                                  chunk[j] = "-"}})
        end == IF Len(chunk) > space_left /\ hyphen > 0
                  /\ \E j \in 1..hyphen : chunk[j] # "-"
               THEN hyphen + 1 ELSE space_left
    IN  [chunks   |-> <<SubSeq(chunk, end + 1, Len(chunk))>> \o Tail(chunks),
         cur_line |-> Append(cur_line, SubSeq(chunk, 1, end)),
         cur_len  |-> cur_len]

\* the outer loop of TextWrapper._wrap_chunks
RECURSIVE _wrap_chunks(_, _, _)
_wrap_chunks(chunks, lines, width) ==
    IF chunks = <<>> THEN lines
    ELSE The({The({The({_wrap_chunks(broken.chunks,
                            IF cur_line # <<>> THEN Append(lines, Concat(cur_line))
                            ELSE lines, width) :
                cur_line \in {IF broken.cur_line # <<>>
                                  /\ IsBlankChunk(broken.cur_line[Len(broken.cur_line)])
                              THEN SubSeq(broken.cur_line, 1, Len(broken.cur_line) - 1)
                              ELSE broken.cur_line}}) :
            broken \in {IF filled.chunks # <<>> /\ Len(Head(filled.chunks)) > width
                        THEN _handle_long_word(filled.chunks, filled.cur_line,
                                               filled.cur_len, width)
                        ELSE filled}}) :
        filled \in {fill_line(IF IsBlankChunk(Head(chunks)) /\ lines # <<>>
                              THEN Tail(chunks) ELSE chunks, <<>>, 0, width)}})

\* textwrap.wrap(text, width=width)
wrap(text_, width) ==
    IF width <= 0 THEN Raise("ValueError", <<>>)
    ELSE Ok(_wrap_chunks(_split(text_, 1), <<>>, width))

\* the setter of dialogue: the object after `self.dialogue = lines`, or the
\* exception of wrap with the object as it was
dialogue_setter(line, lines, width) ==
    LET dialogue == IF IsFalsy(lines) \/ (lines.type = "list" /\ lines.list = <<>>)
                    THEN PyList(<<>>) ELSE lines
    IN  IF dialogue.type # "list"
        THEN The({IF wrapped.exc # "" THEN Raise(wrapped.exc, line)
                  ELSE Ok([line EXCEPT !.dialogue = wrapped.val]) :
                     wrapped \in {wrap(dialogue.str, width)}})
        ELSE Ok([line EXCEPT !.dialogue = dialogue.list])

(***************************************************************************)
(* SRTLine.dialogue: objects and assignments.                              *)
(***************************************************************************)
\* the words of the texts: runs of one letter
WrapWords == SeqsOf({"a"}, 1, MaxWordLen)

\* n words, a space or a hyphen between two of them
RECURSIVE WrapTexts(_)
WrapTexts(n) ==
    IF n = 1 THEN WrapWords
    ELSE {t \o <<sep>> \o w : t \in WrapTexts(n - 1), sep \in {" ", "-"}, w \in WrapWords}

\* the values assigned to dialogue: None, the empty text and the empty list,
\* lists of lines, and texts of up to MaxWrapWords words, with or without a
\* space in front
DialogueValues ==
    {PyNone, PyStr(<<>>), PyList(<<>>), PyList(<<<<"a", " ", "a", "a">>>>),
     PyList(<<<<"a", "a", "a", "a", "a", "a", "a">>, <<" ", "a">>>>)}
      \cup {PyStr(lead \o t) : lead \in {<<>>, <<" ">>},
                               t \in UNION {WrapTexts(n) : n \in 1..MaxWrapWords}}

InitWrap ==
    /\ op = "start"
    /\ ret = NoRet
    /\ CutIdle
    /\ TsIdle /\ SrtIdle
    /\ given \in {[kind |-> "dialogue", width |-> w] : w \in 0..MaxWidth}
    /\ self = <<SRTLine(1, TimingLine(0, 1000), <<>>)>>
    /\ inserted = <<>>

\* self[1].dialogue = lines, the width of the object given.width
AssignDialogue ==
    /\ given.kind = "dialogue"
    /\ \E lines \in DialogueValues :
        /\ call' = [lines |-> lines]
        /\ ret' = The({IF set.exc = "" THEN Ok(0) ELSE Raise(set.exc, 0) :
                          set \in {dialogue_setter(self[1], lines, given.width)}})
        /\ self' = <<dialogue_setter(self[1], lines, given.width).val>>
    /\ op' = "dialogue"
    /\ UNCHANGED <<ts_arg, given, kwargs, blocks, text, inserted, locals, trace>>

NextWrap == AssignDialogue

SpecWrap == InitWrap /\ [][NextWrap]_vars

NonEmpty(w) == w # <<>>

\* the words of a text: its maximal runs without a space
WordsOf(s) == SelectSeq(Split(s, <<" ">>), NonEmpty)

\* the characters of the first k items together
RECURSIVE TotalLen(_, _)
TotalLen(items, k) == IF k = 0 THEN 0 ELSE TotalLen(items, k - 1) + Len(items[k])

\* where the lines end, counted in characters that are no spaces
BreakOffsets(lines) ==
    {TotalLen([k \in 1..Len(lines) |-> RemoveBlanks(lines[k])], n) :
        n \in 1..(Len(lines) - 1)}

\* the break at offset o falls between two words of the text, or inside a
\* word longer than width
BreakAllowed(words, o, width) ==
    \/ \E m \in 0..Len(words) : TotalLen(words, m) = o
    \/ \E m \in 1..Len(words) :
        /\ TotalLen(words, m - 1) < o /\ o < TotalLen(words, m)
        /\ Len(words[m]) > width

\* C22: assigning a list of lines to SRTLine.dialogue stores it verbatim;
\* assigning a string stores lines of at most width characters whose breaks
\* fall at whitespace only, no word split unless it is longer than width;
\* assigning None or an empty value stores an empty dialogue.
C22_DialogueAssignment ==
    (op = "dialogue" /\ given.width >= 1) =>
        LET lines == call.lines
            dialogue == self[1].dialogue
        IN  /\ ret.exc = ""
            /\ lines.type = "list" => dialogue = lines.list
            /\ IsFalsy(lines) => dialogue = <<>>
            /\ (lines.type = "str" /\ lines.str # <<>>) =>
                /\ \A k \in 1..Len(dialogue) : Len(dialogue[k]) <= given.width
                /\ \A o \in BreakOffsets(dialogue) :
                       BreakAllowed(WordsOf(lines.str), o, given.width)

(***************************************************************************)
(* SRT texts that follow no block structure: timing lines, dialogue lines  *)
(* and blank lines in any order.                                           *)
(***************************************************************************)
\* a line with '-->' whose start part total_ms cannot parse
UnparsableTimingLine == <<"x", " ", "-", "-", ">", " ">> \o WriteMs(1000)

\* the lines a text is made of: two timing lines, an unparsable one, a
\* dialogue line, an empty line and a line of one space
LooseLines ==
    {TimingLine(0, 1000), TimingLine(1000, 2000), UnparsableTimingLine,
     <<"a">>, <<>>, <<" ">>}

InitLoose ==
    /\ op = "start"
    /\ ret = NoRet
    /\ CutIdle
    /\ TsIdle /\ ListIdle
    /\ call = <<>>
    /\ blocks = <<>>
    /\ \E lines \in SeqsOf(LooseLines, 1, MaxLooseLines) :
        /\ given = [kind |-> "srt", lines |-> lines]
        /\ text = Join(lines, NL)

NextLoose == CallRemoveDialogueForFirstTs \/ CallRemoveDialogueBetween

SpecLoose == InitLoose /\ [][NextLoose]_vars

\* the line holds '-->' and total_ms raises on what stands before it
IsUnparsableTiming(line) ==
    Contains(line, Arrow) /\ total_ms(Strip(Split1(line, Arrow)[1])).exc # ""

\* C24: remove_dialogue_between raises the error of total_ms, returning no
\* text, whenever a line with '-->' has a start part total_ms cannot parse,
\* inside the range or not, and only then; remove_dialogue_for_first_ts
\* never raises on such a text.
C24_ParseErrorPropagates ==
    LET unparsable == \E k \in 1..Len(given.lines) : IsUnparsableTiming(given.lines[k])
    IN  /\ op = "remove_dialogue_between" =>
            IF unparsable THEN ret = Raise("ValueError", <<>>) ELSE ret.exc = ""
        /\ op = "remove_dialogue_for_first_ts" => ret.exc = ""

\* remove_dialogue_between(text, 0, 1000) has raised ValueError for a text
\* whose unparsable timing line comes after a block that starts at 1000,
\* outside the range
C24_Witness ==
    /\ op = "remove_dialogue_between"
    /\ call.start_ms = 0 /\ call.end_ms = 1000
    /\ given.lines = <<TimingLine(1000, 2000), <<"a">>, <<>>, UnparsableTimingLine>>
    /\ ret.exc = "ValueError"

IsTiming(line) == Contains(line, Arrow)

IsBlankLine(line) == Strip(line) = <<>>

\* the positions of the timing lines, in order
TimingPositions(lines) ==
    SelectSeq([k \in 1..Len(lines) |-> k], LAMBDA k : IsTiming(lines[k]))

\* the dialogue under the timing line at k: the lines after it up to the
\* next timing line, blank line or end of the text
DialogueRun(lines, k) ==
    LET stops == {j \in (k + 1)..Len(lines) : IsTiming(lines[j]) \/ IsBlankLine(lines[j])}
    IN  SubSeq(lines, k + 1, IF stops = {} THEN Len(lines) ELSE Min(stops) - 1)

\* the start of the timing line is outside [start_ms, end_ms)
StartsOutside(line) ==
    LET line_ts_ms == total_ms(Strip(Split1(line, Arrow)[1])).val
    IN  line_ts_ms < call.start_ms \/ line_ts_ms >= call.end_ms

\* C25: in the result of remove_dialogue_between, the dialogue under a
\* timing line whose start is outside [start_ms, end_ms) is kept, whatever
\* came before that timing line, a block of the range with no blank line
\* after it included.
C25_NoCarryIntoNextBlock ==
    (op = "remove_dialogue_between" /\ ret.exc = "") =>
        LET lines == given.lines
            out == Split(ret.val, NL)
            at == TimingPositions(lines)
            out_at == TimingPositions(out)
        IN  /\ Len(out_at) = Len(at)
            /\ \A m \in 1..Len(at) :
                StartsOutside(lines[at[m]])
                  => LET run == DialogueRun(lines, at[m])
                     IN  /\ out_at[m] + Len(run) <= Len(out)
                         /\ SubSeq(out, out_at[m] + 1, out_at[m] + Len(run)) = run

\* lines[i..] holds the lines of sub[j..] in their order
RECURSIVE IsSubsequenceFrom(_, _, _, _)
IsSubsequenceFrom(sub, j, lines, i) ==
    IF j > Len(sub) THEN TRUE
    ELSE IF i > Len(lines) THEN FALSE
    ELSE IF sub[j] = lines[i] THEN IsSubsequenceFrom(sub, j + 1, lines, i + 1)
    ELSE IsSubsequenceFrom(sub, j, lines, i + 1)

\* only dialogue is missing from out: out is a subsequence of lines with all
\* the timing lines and all the blank lines of lines
OnlyDialogueRemoved(lines, out) ==
    /\ IsSubsequenceFrom(out, 1, lines, 1)
    /\ SelectSeq(out, IsTiming) = SelectSeq(lines, IsTiming)
    /\ SelectSeq(out, IsBlankLine) = SelectSeq(lines, IsBlankLine)

\* C26: the lines returned by remove_dialogue_between and by
\* remove_dialogue_for_first_ts are a subsequence of the lines of the text,
\* in their order, with every line holding '-->' and every blank line of the
\* text among them.
C26_OnlyDialogueRemoved ==
    ((op = "remove_dialogue_between" /\ ret.exc = "")
        \/ op = "remove_dialogue_for_first_ts") =>
            OnlyDialogueRemoved(Split(text, NL), Split(ret.val, NL))

(***************************************************************************)
(* api.py: ThreePlayApi.request and the pages it fetches.  The server      *)
(* holds the entries 1..total_entries and serves them per_page at a time;  *)
(* given says which page requests fail.  locals holds the local variables  *)
(* of request, trace the pages requested, in the order the requests were   *)
(* made (the first request, which names no page, is written 1).            *)
(***************************************************************************)
\* ThreadPoolExecutor(max_workers=5)
max_workers == 5

\* math.ceil(total_entries / per_page)
ceil_div(total_entries, per_page) == (total_entries + per_page - 1) \div per_page

\* the 'data' of the page the server returns
PageData(page, per_page, total_entries) ==
    [i \in 1..Max({0, Min({per_page, total_entries - (page - 1) * per_page})}) |->
        (page - 1) * per_page + i]

\* _request_page(method, api, page): the JSON of the response, or the
\* exception raised by _handle_response
_request_page(server, page) ==
    IF page \in server.fails THEN Raise("HTTPError", <<>>)
    ELSE Ok([data |-> PageData(page, server.per_page, server.total_entries)])

\* the items of page_to_data in the order they were inserted
items_unsorted(page_to_data) == page_to_data

\* sorted(page_to_data.items()): the items by ascending page
RECURSIVE sorted(_)
sorted(page_to_data) ==
    IF page_to_data = <<>> THEN <<>>
    ELSE The({<<page_to_data[k]>>
                \o sorted(SubSeq(page_to_data, 1, k - 1)
                            \o SubSeq(page_to_data, k + 1, Len(page_to_data))) :
              k \in {The({i \in 1..Len(page_to_data) :
                            \A j \in 1..Len(page_to_data) :
                                page_to_data[i].page <= page_to_data[j].page})}})

\* response['data'].extend(page_data) for the items, in their order
RECURSIVE extend_each(_, _)
extend_each(data, items) ==
    IF items = <<>> THEN data
    ELSE extend_each(data \o Head(items).page_data, Tail(items))

\* the try statement of the loop with no except clause: the exception of the
\* page leaves the loop
future_result_uncaught(page_to_data, page, outcome) ==
    IF outcome.exc # "" THEN [exc |-> outcome.exc, page_to_data |-> page_to_data]
    ELSE [exc |-> "",
          page_to_data |-> Append(page_to_data,
                                  [page |-> page, page_data |-> outcome.val.data])]

\* the try statement of the loop over as_completed, for the future of `page`
\* whose call ended as `outcome`: page_to_data afterwards, and the exception
\* that leaves the loop (none: every Exception is caught and logged)
future_result(page_to_data, page, outcome) ==
    IF outcome.exc # "" THEN [exc |-> "", page_to_data |-> page_to_data]
    ELSE [exc |-> "",
          page_to_data |-> Append(page_to_data,
                                  [page |-> page, page_data |-> outcome.val.data])]

(***************************************************************************)
(* request: servers and steps.                                             *)
(***************************************************************************)
\* what the server holds and which page requests fail
Servers ==
    {[kind |-> "pages", paginated |-> pg, per_page |-> pp, total_entries |-> n,
      fails |-> f] :
        pg \in BOOLEAN, pp \in {1, 2}, n \in 0..MaxEntries,
        f \in SUBSET (1..MaxEntries)}

InitPages ==
    /\ op = "start"
    /\ ret = NoRet
    /\ TsIdle /\ SrtIdle /\ ListIdle
    /\ given \in {s \in Servers :
                    /\ s.fails \subseteq 1..Max({1, ceil_div(s.total_entries, s.per_page)})
                    /\ ~s.paginated => s.fails \subseteq {1}}
    /\ locals = <<>>
    /\ trace = <<>>

\* response = cls._request_page(method, api, ...): it raises, or the
\* response has one page and is returned, or the pages 2..num_pages are
\* submitted to the pool
RequestFirstPage ==
    /\ op = "start"
    /\ given.kind = "pages"
    /\ trace' = <<1>>
    /\ LET response == _request_page(given, 1)
           num_pages == ceil_div(given.total_entries, given.per_page)
       IN  IF response.exc # ""
           THEN /\ op' = "raised"
                /\ ret' = Raise(response.exc, <<>>)
                /\ locals' = locals
           ELSE IF given.paginated /\ num_pages > 1
           THEN /\ op' = "submitted"
                /\ ret' = ret
                /\ locals' = [response       |-> response.val,
                              num_pages      |-> num_pages,
                              future_to_page |-> [page \in 2..num_pages |-> "pending"],
                              page_to_data   |-> <<>>]
           ELSE /\ op' = "returned"
                /\ ret' = Ok(response.val.data)
                /\ locals' = [response |-> response.val, num_pages |-> num_pages,
                              future_to_page |-> <<>>, page_to_data |-> <<>>]
    /\ UNCHANGED <<ts_arg, given, kwargs, blocks, text, call, self, inserted>>

\* a thread of the pool takes the next call from the queue
WorkerTakesPage ==
    /\ op = "submitted"
    /\ \E page \in DOMAIN locals.future_to_page :
        /\ locals.future_to_page[page] = "pending"
        /\ \A q \in DOMAIN locals.future_to_page :
             locals.future_to_page[q] = "pending" => page <= q
        /\ Cardinality({q \in DOMAIN locals.future_to_page :
                           locals.future_to_page[q] = "running"}) < max_workers
        /\ locals' = [locals EXCEPT !.future_to_page[page] = "running"]
    /\ UNCHANGED <<op, ts_arg, given, kwargs, ret, blocks, text, call, self, inserted, trace>>

\* the call _request_page(method, api, page, ...) of a thread ends
PageRequestEnds ==
    /\ op = "submitted"
    /\ \E page \in DOMAIN locals.future_to_page :
        /\ locals.future_to_page[page] = "running"
        /\ trace' = Append(trace, page)
        /\ locals' = [locals EXCEPT !.future_to_page[page] = "finished"]
    /\ UNCHANGED <<op, ts_arg, given, kwargs, ret, blocks, text, call, self, inserted>>

\* as_completed yields a finished future: one pass of the loop body
FutureCompleted ==
    /\ op = "submitted"
    /\ \E page \in DOMAIN locals.future_to_page :
        /\ locals.future_to_page[page] = "finished"
        /\ LET result == future_result(locals.page_to_data, page,
                                       _request_page(given, page))
           IN  IF result.exc # ""
               THEN /\ op' = "raised"
                    /\ ret' = Raise(result.exc, <<>>)
                    /\ locals' = [locals EXCEPT !.future_to_page[page] = "yielded"]
               ELSE /\ op' = op
                    /\ ret' = ret
                    /\ locals' = [locals EXCEPT !.future_to_page[page] = "yielded",
                                                !.page_to_data = result.page_to_data]
    /\ UNCHANGED <<ts_arg, given, kwargs, blocks, text, call, self, inserted, trace>>

\* the loop over as_completed is over and the pool is shut down: the data of
\* the pages are appended and the response is returned
ReturnResponse ==
    /\ op = "submitted"
    /\ \A page \in DOMAIN locals.future_to_page : locals.future_to_page[page] = "yielded"
    /\ ret' = Ok(extend_each(locals.response.data, sorted(locals.page_to_data)))
    /\ op' = "returned"
    /\ UNCHANGED <<ts_arg, given, kwargs, blocks, text, call, self, inserted, locals, trace>>

NextPages ==
    \/ RequestFirstPage
    \/ WorkerTakesPage
    \/ PageRequestEnds
    \/ FutureCompleted
    \/ ReturnResponse

SpecPages == InitPages /\ [][NextPages]_vars

\* the number of pages the first page reports
NumPages == ceil_div(given.total_entries, given.per_page)

\* the pages request has to fetch after the first one
FurtherPages == IF given.paginated /\ NumPages > 1 THEN 2..NumPages ELSE {}

\* how many requests were made for the page
RequestsOf(page) == Cardinality({i \in 1..Len(trace) : trace[i] = page})

\* the data of the pages of the set, in ascending page order, after data
RECURSIVE DataInPageOrder(_, _)
DataInPageOrder(data, pages) ==
    IF pages = {} THEN data
    ELSE LET page == Min(pages)
         IN  DataInPageOrder(
                 data \o PageData(page, given.per_page, given.total_entries),
                 pages \ {page})

\* C27: request asks for each of the pages 2..N once when the first page
\* reports N > 1 pages, and for no further page otherwise; with every page
\* answered, the data returned are those of the first page followed by those
\* of the pages 2..N in ascending page order, in whatever order the page
\* requests ended.
C27_PagesOnceInOrder ==
    /\ \A page \in 1..MaxEntries : RequestsOf(page) <= 1
    /\ \A i \in 1..Len(trace) : trace[i] \in {1} \cup FurtherPages
    /\ op = "returned" =>
        /\ \A page \in {1} \cup FurtherPages : RequestsOf(page) = 1
        /\ given.fails = {} =>
             ret = Ok(DataInPageOrder(<<>>, {1} \cup FurtherPages))

\* the requests for the pages 4, 3, 2 ended in that order, and the entries
\* are returned in the order 1, 2, 3, 4
C27_Witness ==
    /\ op = "returned"
    /\ given.fails = {}
    /\ trace = <<1, 4, 3, 2>>
    /\ Len(locals.page_to_data) = 3 /\ locals.page_to_data[1].page = 4
    /\ ret = Ok(<<1, 2, 3, 4>>)

\* C28: an exception of a request for one of the pages 2..N stays inside
\* request and stops no other page: every page is requested, and the data
\* returned are those of the first page followed by those of the pages that
\* were answered, in page order.  An exception of the first request leaves
\* request.
C28_PageErrorsContained ==
    /\ op = "raised" => (1 \in given.fails /\ trace = <<1>> /\ ret.exc = "HTTPError")
    /\ op = "returned" =>
        /\ 1 \notin given.fails
        /\ \A page \in FurtherPages : RequestsOf(page) = 1
        /\ ret = Ok(DataInPageOrder(<<>>, ({1} \cup FurtherPages) \ given.fails))
    /\ (op \notin {"start", "raised"}) => 1 \notin given.fails

\* the request for page 3 of 4 raised and the entries of the pages 1, 2 and 4
\* are returned
C28_Witness ==
    /\ op = "returned"
    /\ given.fails = {3}
    /\ given.per_page = 1 /\ given.total_entries = 4
    /\ \E i \in 1..Len(trace) : trace[i] = 4
    /\ ret = Ok(<<1, 2, 4>>)

(***************************************************************************)
(* api.py: ThreePlayApi._order_transcription_service.                      *)
(***************************************************************************)
\* the exceptions of requests.exceptions the session raises: all of them are
\* RequestException
RequestExceptions ==
    {"HTTPError", "ConnectionError", "ConnectTimeout", "ReadTimeout", "RetryError"}

\* e.response of a RequestException
Response(status_code) == [present |-> TRUE, status_code |-> status_code]

NoResponse == [present |-> FALSE, status_code |-> 0]

\* cls.request('POST', ...) for what the server did: the JSON of the
\* response; HTTPError, with the response, for a status of 400 or more
\* (raise_for_status in _handle_response); the exception of the session, with
\* no response, otherwise
request_post(answer) ==
    IF answer.kind = "response"
    THEN IF answer.status_code >= 400
         THEN Raise("HTTPError", Response(answer.status_code))
         ELSE Ok(Response(answer.status_code))
    ELSE Raise(answer.kind, NoResponse)

\* _order_transcription_service taking every 4xx status for an order that
\* exists already
_order_transcription_service_any_4xx(service, params, read_timeout, answer) ==
    The({IF e.exc = "" THEN Ok(TRUE)
         ELSE IF e.exc \in RequestExceptions
         THEN IF e.val.present /\ e.val.status_code >= 400 /\ e.val.status_code < 500
              THEN Ok(TRUE)
              ELSE Ok(FALSE)
         ELSE e :
            e \in {request_post(answer)}})

\* ThreePlayApi._order_transcription_service(service, params, read_timeout),
\* the server doing `answer`
_order_transcription_service(service, params, read_timeout, answer) ==
    The({IF e.exc = "" THEN Ok(TRUE)
         ELSE IF e.exc \in RequestExceptions
         THEN IF e.val.present /\ e.val.status_code = 400
              THEN Ok(TRUE)
              ELSE Ok(FALSE)
         ELSE e :
            e \in {request_post(answer)}})

\* what the server does with the order request: it answers with a status, or
\* the session gives up with one of its exceptions
Answers ==
    {[kind |-> "response", status_code |-> s] :
        s \in {200, 201, 400, 401, 404, 429, 500, 503}}
      \cup {[kind |-> k, status_code |-> 0] : k \in RequestExceptions \ {"HTTPError"}}

InitOrder ==
    /\ op = "start"
    /\ ret = NoRet
    /\ CutIdle
    /\ TsIdle /\ SrtIdle /\ ListIdle
    /\ given \in {[kind |-> "order", service |-> s, callback |-> cb,
                   read_timeout |-> t, answer |-> a] :
                    s \in {"asr", "transcript"}, cb \in BOOLEAN,
                    t \in {0, 30}, a \in Answers}

\* order_asr / order_transcript: _order_transcription_service(service, params,
\* read_timeout)
CallOrderTranscriptionService ==
    /\ op = "start"
    /\ given.kind = "order"
    /\ ret' = _order_transcription_service(
                  given.service,
                  [media_file_id |-> 1, callback |-> given.callback],
                  given.read_timeout, given.answer)
    /\ op' = "_order_transcription_service"
    /\ UNCHANGED <<ts_arg, given, kwargs, blocks, text, call, self, inserted, locals, trace>>

NextOrder == CallOrderTranscriptionService

SpecOrder == InitOrder /\ [][NextOrder]_vars

\* C29: _order_transcription_service returns True exactly when the order
\* request succeeded or failed with an HTTP 400 response, False for every
\* other RequestException (another status, a timeout or a connection error
\* with no response), and lets no RequestException out.
C29_OrderSuccess ==
    (op = "_order_transcription_service") =>
        /\ ret.exc \notin RequestExceptions
        /\ ret.exc = ""
        /\ ret.val = (\/ (given.answer.kind = "response" /\ given.answer.status_code < 400)
                      \/ (given.answer.kind = "response" /\ given.answer.status_code = 400))

\* the order request was answered with the status 400 and True is returned
C29_Witness ==
    /\ op = "_order_transcription_service"
    /\ given.answer = [kind |-> "response", status_code |-> 400]
    /\ ret = Ok(TRUE)

(***************************************************************************)
(* api.py: ThreePlayApi.get_ad_asset_url.  The audio description orders of *)
(* the video are listed oldest first (sort_by=created_at); trace holds the *)
(* requests made: 0 for the list of orders, the id for a mix URL.          *)
(***************************************************************************)
\* class TranscriptStatus(Enum): the values of its members
TranscriptStatus == {"in_progress", "pending", "complete", "cancelled"}

\* the loop over the orders read from the oldest one on
RECURSIVE scan_orders_oldest_first(_, _, _)
scan_orders_oldest_first(ad_orders, k, ad_id) ==
    IF k = 0 THEN Ok(ad_id)
    ELSE LET ad_order == ad_orders[Len(ad_orders) + 1 - k]
         IN  IF ad_order.status \notin TranscriptStatus THEN Raise("ValueError", ad_id)
             ELSE IF ad_order.status = "complete" THEN Ok(PyInt(ad_order.id))
             ELSE IF ad_order.status \in {"pending", "in_progress"}
             THEN Raise("ADIsNotComplete", ad_id)
             ELSE scan_orders_oldest_first(ad_orders, k - 1, ad_id)

\* the loop `for ad_order in reversed(ad_orders)` from the k-th order down:
\* the ad_id it ends with, or the exception it raises
RECURSIVE scan_orders(_, _, _)
scan_orders(ad_orders, k, ad_id) ==
    IF k = 0 THEN Ok(ad_id)
    ELSE LET ad_order == ad_orders[k]
         IN  IF ad_order.status \notin TranscriptStatus THEN Raise("ValueError", ad_id)
             ELSE IF ad_order.status = "complete" THEN Ok(PyInt(ad_order.id))
             ELSE IF ad_order.status \in {"pending", "in_progress"}
             THEN Raise("ADIsNotComplete", ad_id)
             ELSE scan_orders(ad_orders, k - 1, ad_id)

\* the URL the server gives for the mix of an audio description
MixUrl(ad_id) == [type |-> "url", ad_id |-> ad_id]

\* cls.request('GET', f'audio_descriptions/{ad_id}/mix', ...)['data']: there
\* is no audio description of the id None
request_mix(ad_id) ==
    IF ad_id.type = "int" THEN Ok(MixUrl(ad_id.int))
    ELSE Raise("HTTPError", PyNone)

\* ThreePlayApi.get_ad_asset_url(video_id, ad_id), the server listing
\* ad_orders for the video: what it returns or raises, and the requests made
get_ad_asset_url(video_id, ad_id, ad_orders) ==
    IF ~IsFalsy(video_id)
    THEN The({IF found.exc # "" THEN [ret |-> found, requests |-> <<0>>]
              ELSE IF IsFalsy(found.val) THEN [ret |-> Ok(PyNone), requests |-> <<0>>]
              ELSE [ret |-> request_mix(found.val),
                    requests |-> <<0, found.val.int>>] :
                 found \in {scan_orders(ad_orders, Len(ad_orders), ad_id)}})
    ELSE [ret |-> request_mix(ad_id),
          requests |-> <<IF ad_id.type = "int" THEN ad_id.int ELSE -1>>]

\* the statuses the server reports: those of TranscriptStatus and one that
\* is none of them
OrderStatuses == TranscriptStatus \cup {"error"}

\* the orders of a video, oldest first, the k-th with the id k
AdOrders ==
    {[k \in 1..Len(st) |-> [id |-> k, status |-> st[k]]] :
        st \in SeqsOf(OrderStatuses, 0, MaxOrders)}

InitAd ==
    /\ op = "start"
    /\ ret = NoRet
    /\ CutIdle
    /\ TsIdle /\ SrtIdle /\ ListIdle
    /\ given \in {[kind |-> "ad", video_id |-> v, ad_id |-> a, ad_orders |-> o] :
                    v \in {PyNone, PyStr(<<"v">>)}, a \in {PyNone, PyInt(9)},
                    o \in AdOrders}

\* ThreePlayApi.get_ad_asset_url(video_id, ad_id)
CallGetAdAssetUrl ==
    /\ op = "start"
    /\ given.kind = "ad"
    /\ LET result == get_ad_asset_url(given.video_id, given.ad_id, given.ad_orders)
       IN  /\ ret' = result.ret
           /\ trace' = result.requests
    /\ op' = "get_ad_asset_url"
    /\ UNCHANGED <<ts_arg, given, kwargs, blocks, text, call, self, inserted, locals>>

NextAd == CallGetAdAssetUrl

SpecAd == InitAd /\ [][NextAd]_vars

\* the positions of the orders of the status set, the last one the most recent
OrdersOf(statuses) ==
    {k \in 1..Len(given.ad_orders) : given.ad_orders[k].status \in statuses}

\* C30: get_ad_asset_url with a video_id raises ADIsNotComplete when an order
\* pending or in progress is more recent than every complete order, gives
\* the mix URL of the most recent complete order otherwise, cancelled orders
\* counting for nothing, and with no complete order and no ad_id returns
\* None without a request for a mix URL.
C30_MostRecentCompleteOrder ==
    (op = "get_ad_asset_url" /\ ~IsFalsy(given.video_id)
        /\ OrdersOf({"error"}) = {}) =>
        LET complete == OrdersOf({"complete"})
            unfinished == OrdersOf({"pending", "in_progress"})
        IN  IF unfinished # {} /\ (complete = {} \/ Max(unfinished) > Max(complete))
            THEN ret.exc = "ADIsNotComplete" /\ trace = <<0>>
            ELSE IF complete # {}
            THEN /\ ret = Ok(MixUrl(given.ad_orders[Max(complete)].id))
                 /\ trace = <<0, given.ad_orders[Max(complete)].id>>
            ELSE IF given.ad_id = PyNone
            THEN ret = Ok(PyNone) /\ trace = <<0>>
            ELSE ret = Ok(MixUrl(given.ad_id.int)) /\ trace = <<0, given.ad_id.int>>

\* of the orders complete, complete, cancelled (oldest first) the second one
\* gives the mix URL
C30_Witness ==
    /\ op = "get_ad_asset_url"
    /\ given.video_id = PyStr(<<"v">>)
    /\ Len(given.ad_orders) = 3
    /\ given.ad_orders[1].status = "complete"
    /\ given.ad_orders[2].status = "complete"
    /\ given.ad_orders[3].status = "cancelled"
    /\ ret = Ok(MixUrl(2))

====
